---- MODULE Spec2Model ----
(***************************************************************************)
(* PinataFS: an on-chain path -> CID store whose writes are gated by the   *)
(* ownership of an ERC-721 token and by the prefixes granted to the token. *)
(* The model covers the PinataFS contract (path normalizer, subtree        *)
(* matcher, permission records, file records, audit events) and the        *)
(* PermissionNFT collection that serves as its ownership oracle.           *)
(*                                                                         *)
(* Strings are sequences of byte codes, addresses are model values, and    *)
(* every external call is one atomic step.  How a call ends is a function  *)
(* of its arguments and of the state it is applied in (the ...Result       *)
(* operators); a call that reverts leaves storage and the event log as     *)
(* they were.                                                              *)
(***************************************************************************)
EXTENDS Integers, Sequences, FiniteSets, TLC

(***************************************************************************)
(* Bytes used by the path grammar (ASCII codes).                           *)
(***************************************************************************)
SLASH == 47
DOT == 46
HYPHEN == 45
UNDERSCORE == 95
UpperA == 65
UpperZ == 90
LowerA == 97
LowerZ == 122
Digit0 == 48
Digit9 == 57

(***************************************************************************)
(* Addresses.  ZERO is address(0).  DEPLOYER deploys PinataFS and the NFT  *)
(* collections; ALICE and BOB are externally owned accounts.               *)
(***************************************************************************)
ZERO == "0x0"
DEPLOYER == "deployer"
ALICE == "alice"
BOB == "bob"

\* The accounts that send calls (msg.sender is never address(0)).
Senders == {DEPLOYER, ALICE, BOB}
Holders == {ALICE, BOB}
Addresses == Senders \cup {ZERO}

\* Two deployed PermissionNFT collections and one address without code.
NFT == "permissionNft"
EXT == "externalPermissionNft"
Collections == {NFT, EXT}
\* The PinataFS contract itself: deployed code that has no ownerOf.
FS == "pinataFs"
Deployed == Collections \cup {FS}
\* What a call may pass as nftContract: ALICE and ZERO have no code.
NftContracts == Deployed \cup {ALICE, ZERO}

(***************************************************************************)
(* Bounds of the model.                                                    *)
(***************************************************************************)
\* length of the audit log (the constructor's event included)
MaxEvents == 4
\* length of the strings the pure-function specifications enumerate
MaxLen == 5

\* The token ids the calls name; a collection mints ids of this set only.
TokenIds == {1}

\* token ids a permission key can name; PinataFS keeps state for a key
\* whether or not its token has been minted
StoredTokenIds == {1, 2}
Keys == NftContracts \X TokenIds

VARIABLES
    owner,                \* PinataFS.owner
    tokenWriteRevoked,    \* PinataFS.tokenWriteRevoked[nftContract][tokenId]
    _tokenPrefixes,       \* PinataFS._tokenPrefixes[nftContract][tokenId]
    _files,               \* PinataFS._files[pathHash]
    events,               \* the events PinataFS has emitted, oldest first
    _ownerOf,             \* PermissionNFT._ownerOf[tokenId], per collection
    _balanceOf,           \* PermissionNFT._balanceOf[owner], per collection
    _tokenApprovals,      \* PermissionNFT._tokenApprovals[tokenId], per collection
    _operatorApprovals,   \* PermissionNFT._operatorApprovals[owner][operator]
    tokenTransferable,    \* PermissionNFT.tokenTransferable[tokenId]
    _nextTokenId,         \* PermissionNFT._nextTokenId, per collection
    probe                 \* input and output of a pure function under test

fsVars == <<owner, tokenWriteRevoked, _tokenPrefixes, _files, events>>
nftVars == <<_ownerOf, _balanceOf, _tokenApprovals, _operatorApprovals,
             tokenTransferable, _nextTokenId>>
vars == <<fsVars, nftVars, probe>>

(***************************************************************************)
(* Results of calls.  A call either returns or reverts with a custom       *)
(* error; both are tuples so that any two results can be compared.         *)
(***************************************************************************)
OK == <<"ok">>
Err(name) == <<"revert", name>>
ErrKey(name, nftContract, tokenId) == <<"revert", name, nftContract, tokenId>>
Ret(value) == <<"return", value>>
IsRevert(r) == r[1] = "revert"

(***************************************************************************)
(* PinataFS: pure helpers                                                  *)
(***************************************************************************)
\* keccak256 over the bytes of the string: injective on the model's strings.
_hashString(value) == <<"keccak256", value>>

IsSegmentByte(current) ==
    \/ (current >= UpperA /\ current <= UpperZ)
    \/ (current >= LowerA /\ current <= LowerZ)
    \/ (current >= Digit0 /\ current <= Digit9)
    \/ current = HYPHEN
    \/ current = UNDERSCORE

\* The for loop of _normalizePath and the checks that follow it.  i is the
\* 1-based position of the byte to read; st holds the loop's locals.
RECURSIVE _normalizeLoop(_, _, _, _)
_normalizeLoop(input, allowDotInFinalSegment, i, st) ==
    IF i > Len(input)
    THEN IF st.previousWasSlash THEN Err("InvalidPath")
         ELSE IF st.segmentLength = 0 THEN Err("InvalidPath")
         ELSE IF st.segmentEndsWithDot THEN Err("InvalidPath")
         ELSE IF ~allowDotInFinalSegment /\ st.segmentDotCount > 0 THEN Err("InvalidPath")
         ELSE Ret(st.normalized)
    ELSE LET current == input[i] IN
         IF current = SLASH
         THEN IF st.previousWasSlash THEN Err("InvalidPath")
              ELSE IF st.segmentDotCount > 0 THEN Err("InvalidPath")
              ELSE _normalizeLoop(input, allowDotInFinalSegment, i + 1,
                       [normalized |-> Append(st.normalized, SLASH),
                        previousWasSlash |-> TRUE,
                        segmentLength |-> 0,
                        segmentDotCount |-> 0,
                        segmentEndsWithDot |-> FALSE])
         ELSE IF IsSegmentByte(current)
         THEN _normalizeLoop(input, allowDotInFinalSegment, i + 1,
                       [st EXCEPT !.normalized = Append(@, current),
                                  !.segmentLength = @ + 1,
                                  !.previousWasSlash = FALSE,
                                  !.segmentEndsWithDot = FALSE])
         ELSE IF current = DOT
         THEN IF ~allowDotInFinalSegment THEN Err("InvalidPath")
              ELSE IF st.segmentLength = 0 THEN Err("InvalidPath")
              ELSE IF st.segmentDotCount + 1 > 1 THEN Err("InvalidPath")
              ELSE _normalizeLoop(input, allowDotInFinalSegment, i + 1,
                       [st EXCEPT !.normalized = Append(@, current),
                                  !.segmentLength = @ + 1,
                                  !.previousWasSlash = FALSE,
                                  !.segmentDotCount = @ + 1,
                                  !.segmentEndsWithDot = TRUE])
         ELSE Err("InvalidPath")

\* Mutant: the copy folds upper-case letters to lower case.
_normalizePathLower(rawPath, allowDotInFinalSegment, allowRootOnly) ==
    LET input == rawPath
        length == Len(input)
        out == IF length = 0 \/ input[1] # SLASH THEN Err("InvalidPath")
               ELSE IF length = 1
               THEN IF ~allowRootOnly THEN Err("InvalidPath") ELSE Ret(<<SLASH>>)
               ELSE _normalizeLoop(input, allowDotInFinalSegment, 2,
                        [normalized |-> <<SLASH>>,
                         previousWasSlash |-> TRUE,
                         segmentLength |-> 0,
                         segmentDotCount |-> 0,
                         segmentEndsWithDot |-> FALSE])
    IN  IF IsRevert(out) THEN out
        ELSE Ret([i \in 1..Len(out[2]) |->
                     IF out[2][i] >= UpperA /\ out[2][i] <= UpperZ
                     THEN out[2][i] + (LowerA - UpperA)
                     ELSE out[2][i]])

_normalizePath(rawPath, allowDotInFinalSegment, allowRootOnly) ==
    LET input == rawPath
        length == Len(input)
    IN  IF length = 0 \/ input[1] # SLASH THEN Err("InvalidPath")
        ELSE IF length = 1
        THEN IF ~allowRootOnly THEN Err("InvalidPath") ELSE Ret(<<SLASH>>)
        ELSE _normalizeLoop(input, allowDotInFinalSegment, 2,
                 [normalized |-> <<SLASH>>,
                  previousWasSlash |-> TRUE,
                  segmentLength |-> 0,
                  segmentDotCount |-> 0,
                  segmentEndsWithDot |-> FALSE])

\* Mutant: the bare root is refused as a prefix too.
_normalizePrefixPathNoRoot(prefix) == _normalizePath(prefix, FALSE, FALSE)

_normalizePrefixPath(prefix) == _normalizePath(prefix, FALSE, TRUE)

\* Mutant: a file path is held to the prefix rule for ".".
_normalizeFilePathNoDots(path) == _normalizePath(path, FALSE, FALSE)

_normalizeFilePath(path) == _normalizePath(path, TRUE, FALSE)

\* Mutant: a plain byte-prefix test, without the segment-boundary check.
_isPathInPrefixNoBoundary(path, prefix) ==
    IF Len(prefix) = 1
    THEN Len(path) >= 1 /\ path[1] = SLASH
    ELSE IF Len(path) < Len(prefix) THEN FALSE
    ELSE \A i \in 1..Len(prefix) : path[i] = prefix[i]

\* Strict subtree matching (positions are 1-based here, 0-based in the source).
_isPathInPrefix(path, prefix) ==
    LET pathBytes == path
        prefixBytes == prefix
    IN  IF Len(prefixBytes) = 1
        THEN Len(pathBytes) >= 1 /\ pathBytes[1] = SLASH
        ELSE IF Len(pathBytes) < Len(prefixBytes) THEN FALSE
        ELSE IF \E i \in 1..Len(prefixBytes) : pathBytes[i] # prefixBytes[i] THEN FALSE
        ELSE IF Len(pathBytes) = Len(prefixBytes) THEN TRUE
        ELSE pathBytes[Len(prefixBytes) + 1] = SLASH

\* Mutant: no stored prefix is ever recognised as already present.
_containsPrefixNever(prefixes, prefixHash) == FALSE

_containsPrefix(prefixes, prefixHash) ==
    \E i \in 1..Len(prefixes) : _hashString(prefixes[i]) = prefixHash

\* Mutant: only the first stored prefix is consulted.
_hasPathPermissionLoopFirstOnly(prefixes, path, i) ==
    Len(prefixes) >= 1 /\ _isPathInPrefix(path, prefixes[1])

\* The loop of _hasPathPermission over the stored list, first match returns.
RECURSIVE _hasPathPermissionLoop(_, _, _)
_hasPathPermissionLoop(prefixes, path, i) ==
    IF i > Len(prefixes) THEN FALSE
    ELSE IF _isPathInPrefix(path, prefixes[i]) THEN TRUE
    ELSE _hasPathPermissionLoop(prefixes, path, i + 1)

\* Mutant: a path covered by the prefixes of any key is accepted.
_hasPathPermissionAnyKey(nftContract, tokenId, path) ==
    \E otherContract \in NftContracts, otherId \in TokenIds :
        _hasPathPermissionLoop(_tokenPrefixes[otherContract][otherId], path, 1)

\* Mutant: the stored prefixes are not consulted.
_hasPathPermissionAlways(nftContract, tokenId, path) == TRUE

_hasPathPermission(nftContract, tokenId, path) ==
    _hasPathPermissionLoop(_tokenPrefixes[nftContract][tokenId], path, 1)

\* The loop of _replaceTokenPrefixes over the list it writes: storedPrefixes
\* starts empty (the delete), an invalid prefix reverts the call, a prefix
\* already stored is skipped.  written is the list as the call left it when it
\* returned or reverted.
RECURSIVE _replaceLoop(_, _, _)
_replaceLoop(storedPrefixes, prefixes, i) ==
    IF i > Len(prefixes) THEN [result |-> OK, written |-> storedPrefixes]
    ELSE LET validatedPrefix == _normalizePrefixPath(prefixes[i]) IN
         IF IsRevert(validatedPrefix)
         THEN [result |-> validatedPrefix, written |-> storedPrefixes]
         ELSE IF _containsPrefix(storedPrefixes, _hashString(validatedPrefix[2]))
         THEN _replaceLoop(storedPrefixes, prefixes, i + 1)
         ELSE _replaceLoop(Append(storedPrefixes, validatedPrefix[2]), prefixes, i + 1)

_replaceTokenPrefixes(prefixes) == _replaceLoop(<<>>, prefixes, 1)

_isContract(account) == account \in Deployed

\* Mutant: what the call wrote before it failed stays written.
CommittedNoRollback(result, before, after) == after

\* A revert undoes every storage write and event of the call.
Committed(result, before, after) == IF IsRevert(result) THEN before ELSE after

(***************************************************************************)
(* PermissionNFT: views                                                    *)
(***************************************************************************)
\* PermissionNFT.ownerOf: the owner, or a revert for a token never minted.
ownerOf(collection, tokenId) ==
    LET tokenOwner == IF tokenId \in TokenIds THEN _ownerOf[collection][tokenId] ELSE ZERO
    IN  IF tokenOwner = ZERO THEN Err("TokenDoesNotExist") ELSE Ret(tokenOwner)

_isApprovedOrOwner(collection, spender, tokenId, tokenOwner) ==
    \/ spender = tokenOwner
    \/ _tokenApprovals[collection][tokenId] = spender
    \/ _operatorApprovals[collection][tokenOwner][spender]

\* try ownerOf(tokenId) / catch: the resolved owner, address(0) when the call
\* reverts (a token never minted, a contract without ownerOf).
_ownerOfNftTokenNoRevert(nftContract, tokenId) ==
    LET answer == IF nftContract \in Collections
                  THEN ownerOf(nftContract, tokenId)
                  ELSE Err("")
    IN  IF IsRevert(answer) THEN ZERO ELSE answer[2]

(***************************************************************************)
(* Inputs of the calls.                                                    *)
(***************************************************************************)
PathAF == <<SLASH, 97, SLASH, 102>>
PathAbF == <<SLASH, 97, 98, SLASH, 102>>
PathDoubleSlash == <<SLASH, 97, SLASH, SLASH, 102>>
RawPaths == {PathAF, PathAbF, PathDoubleSlash}

PrefixRoot == <<SLASH>>
PrefixA == <<SLASH, 97>>
PrefixAb == <<SLASH, 97, 98>>
PrefixTrailingSlash == <<SLASH, 97, SLASH>>
PrefixLists ==
    { <<>>,
      <<PrefixA>>,
      <<PrefixRoot>>,
      <<PrefixA, PrefixA>>,
      <<PrefixAb, PrefixA>>,
      <<PrefixTrailingSlash, PrefixA>>,
      <<PrefixAb, PrefixTrailingSlash, PrefixA>>,
      <<PrefixAb, PrefixTrailingSlash>> }

\* Lists offered to replaceTokenPrefixes from every state without being applied:
\* those of PrefixLists, one with an upper-case prefix given twice, one with a
\* dot ("/a.b") and one with an empty segment ("/a//b").
PrefixUpperA == <<SLASH, 65>>
PrefixDot == <<SLASH, 97, DOT, 98>>
PrefixDoubleSlash == <<SLASH, 97, SLASH, SLASH, 98>>
ReplaceInputs ==
    PrefixLists \cup { <<PrefixUpperA, PrefixA, PrefixUpperA>>,
                       <<PrefixA, PrefixDot>>,
                       <<PrefixDoubleSlash>> }

Cids == {"", "v1", "v2"}

\* The keys of _files the calls can touch.
FileHashes ==
    { _hashString(_normalizeFilePath(p)[2]) :
        p \in {q \in RawPaths : ~IsRevert(_normalizeFilePath(q))} }

(***************************************************************************)
(* PinataFS: how each call ends, from the state it is applied in           *)
(***************************************************************************)
\* Mutant: the deployer keeps passing the administrator check for ever.
_onlyOwnerOrDeployer(sender) ==
    IF sender # owner /\ sender # DEPLOYER THEN Err("NotOwner") ELSE OK

\* Mutant: with no administrator set, anyone passes the administrator check.
_onlyOwnerUnlessUnset(sender) ==
    IF owner # ZERO /\ sender # owner THEN Err("NotOwner") ELSE OK

_onlyOwner(sender) == IF sender # owner THEN Err("NotOwner") ELSE OK

\* Mutant: any address is taken as an ownership contract.
_requireNftContractAny(nftContract) == OK

_requireNftContract(nftContract) ==
    IF ~_isContract(nftContract) THEN Err("InvalidNftContract") ELSE OK

\* Mutant: an empty cid is accepted.
writeFileResultEmptyCid(sender, nftContract, tokenId, path, cid) ==
    IF IsRevert(_requireNftContract(nftContract)) THEN _requireNftContract(nftContract)
    ELSE IF _ownerOfNftTokenNoRevert(nftContract, tokenId) # sender THEN Err("NotTokenOwner")
    ELSE IF tokenWriteRevoked[nftContract][tokenId]
    THEN ErrKey("TokenWritesRevoked", nftContract, tokenId)
    ELSE LET validatedPath == _normalizeFilePath(path) IN
         IF IsRevert(validatedPath) THEN validatedPath
         ELSE IF ~_hasPathPermission(nftContract, tokenId, validatedPath[2])
         THEN Err("UnauthorizedPath")
         ELSE OK

\* Mutant: the path is validated before the revocation flag is read.
writeFileResultPathFirst(sender, nftContract, tokenId, path, cid) ==
    IF cid = "" THEN Err("EmptyCid")
    ELSE IF IsRevert(_requireNftContract(nftContract)) THEN _requireNftContract(nftContract)
    ELSE IF _ownerOfNftTokenNoRevert(nftContract, tokenId) # sender THEN Err("NotTokenOwner")
    ELSE LET validatedPath == _normalizeFilePath(path) IN
         IF IsRevert(validatedPath) THEN validatedPath
         ELSE IF tokenWriteRevoked[nftContract][tokenId]
         THEN ErrKey("TokenWritesRevoked", nftContract, tokenId)
         ELSE IF ~_hasPathPermission(nftContract, tokenId, validatedPath[2])
         THEN Err("UnauthorizedPath")
         ELSE OK

\* Mutant: whoever may transfer the token (owner, approved, operator) may write.
writeFileResultApprovedToo(sender, nftContract, tokenId, path, cid) ==
    LET tokenOwner == _ownerOfNftTokenNoRevert(nftContract, tokenId) IN
    IF cid = "" THEN Err("EmptyCid")
    ELSE IF IsRevert(_requireNftContract(nftContract)) THEN _requireNftContract(nftContract)
    ELSE IF ~(\/ tokenOwner = sender
              \/ /\ nftContract \in Collections
                 /\ tokenOwner # ZERO
                 /\ _isApprovedOrOwner(nftContract, sender, tokenId, tokenOwner))
    THEN Err("NotTokenOwner")
    ELSE IF tokenWriteRevoked[nftContract][tokenId]
    THEN ErrKey("TokenWritesRevoked", nftContract, tokenId)
    ELSE LET validatedPath == _normalizeFilePath(path) IN
         IF IsRevert(validatedPath) THEN validatedPath
         ELSE IF ~_hasPathPermission(nftContract, tokenId, validatedPath[2])
         THEN Err("UnauthorizedPath")
         ELSE OK

\* Mutant: the owner is not compared with the sender; a minted token suffices.
writeFileResultAnyHolder(sender, nftContract, tokenId, path, cid) ==
    IF cid = "" THEN Err("EmptyCid")
    ELSE IF IsRevert(_requireNftContract(nftContract)) THEN _requireNftContract(nftContract)
    ELSE IF _ownerOfNftTokenNoRevert(nftContract, tokenId) = ZERO THEN Err("NotTokenOwner")
    ELSE IF tokenWriteRevoked[nftContract][tokenId]
    THEN ErrKey("TokenWritesRevoked", nftContract, tokenId)
    ELSE LET validatedPath == _normalizeFilePath(path) IN
         IF IsRevert(validatedPath) THEN validatedPath
         ELSE IF ~_hasPathPermission(nftContract, tokenId, validatedPath[2])
         THEN Err("UnauthorizedPath")
         ELSE OK

\* Mutant: the revocation flag is not read.
writeFileResultNoRevocation(sender, nftContract, tokenId, path, cid) ==
    IF cid = "" THEN Err("EmptyCid")
    ELSE IF IsRevert(_requireNftContract(nftContract)) THEN _requireNftContract(nftContract)
    ELSE IF _ownerOfNftTokenNoRevert(nftContract, tokenId) # sender THEN Err("NotTokenOwner")
    ELSE LET validatedPath == _normalizeFilePath(path) IN
         IF IsRevert(validatedPath) THEN validatedPath
         ELSE IF ~_hasPathPermission(nftContract, tokenId, validatedPath[2])
         THEN Err("UnauthorizedPath")
         ELSE OK

\* Mutant: a path that already has a record cannot be written again.
writeFileResultNoOverwrite(sender, nftContract, tokenId, path, cid) ==
    IF cid = "" THEN Err("EmptyCid")
    ELSE IF IsRevert(_requireNftContract(nftContract)) THEN _requireNftContract(nftContract)
    ELSE IF _ownerOfNftTokenNoRevert(nftContract, tokenId) # sender THEN Err("NotTokenOwner")
    ELSE IF tokenWriteRevoked[nftContract][tokenId]
    THEN ErrKey("TokenWritesRevoked", nftContract, tokenId)
    ELSE LET validatedPath == _normalizeFilePath(path) IN
         IF IsRevert(validatedPath) THEN validatedPath
         ELSE IF ~_hasPathPermission(nftContract, tokenId, validatedPath[2])
         THEN Err("UnauthorizedPath")
         ELSE IF _files[_hashString(validatedPath[2])] # "" THEN Err("UnauthorizedPath")
         ELSE OK

writeFileResult(sender, nftContract, tokenId, path, cid) ==
    IF cid = "" THEN Err("EmptyCid")
    ELSE IF IsRevert(_requireNftContract(nftContract)) THEN _requireNftContract(nftContract)
    ELSE IF _ownerOfNftTokenNoRevert(nftContract, tokenId) # sender THEN Err("NotTokenOwner")
    ELSE IF tokenWriteRevoked[nftContract][tokenId]
    THEN ErrKey("TokenWritesRevoked", nftContract, tokenId)
    ELSE LET validatedPath == _normalizeFilePath(path) IN
         IF IsRevert(validatedPath) THEN validatedPath
         ELSE IF ~_hasPathPermission(nftContract, tokenId, validatedPath[2])
         THEN Err("UnauthorizedPath")
         ELSE OK

\* Mutant: the prefixes are validated before the caller and the contract.
replaceTokenPrefixesResultPathFirst(sender, nftContract, tokenId, prefixes) ==
    IF IsRevert(_replaceTokenPrefixes(prefixes).result)
    THEN _replaceTokenPrefixes(prefixes).result
    ELSE IF IsRevert(_requireNftContract(nftContract)) THEN _requireNftContract(nftContract)
    ELSE _onlyOwner(sender)

replaceTokenPrefixesResult(sender, nftContract, tokenId, prefixes) ==
    IF IsRevert(_onlyOwner(sender)) THEN _onlyOwner(sender)
    ELSE IF IsRevert(_requireNftContract(nftContract)) THEN _requireNftContract(nftContract)
    ELSE _replaceTokenPrefixes(prefixes).result

setTokenWriteRevokedResult(sender, nftContract, tokenId, revoked) ==
    IF IsRevert(_onlyOwner(sender)) THEN _onlyOwner(sender)
    ELSE IF IsRevert(_requireNftContract(nftContract)) THEN _requireNftContract(nftContract)
    ELSE OK

transferOwnershipResult(sender, newOwner) == _onlyOwner(sender)

\* getFile is a view: the stored cid, or a revert.
getFile(path) ==
    LET validatedPath == _normalizeFilePath(path) IN
    IF IsRevert(validatedPath) THEN validatedPath
    ELSE LET cid == _files[_hashString(validatedPath[2])] IN
         IF cid = "" THEN Err("FileNotFound") ELSE Ret(cid)

\* Mutant: a missing record makes the existence check fail like a read.
fileExistsOrFails(path) ==
    LET validatedPath == _normalizeFilePath(path) IN
    IF IsRevert(validatedPath) THEN validatedPath
    ELSE IF _files[_hashString(validatedPath[2])] = "" THEN Err("FileNotFound")
    ELSE Ret(TRUE)

\* fileExists is a view: a boolean, or a revert on a path that is not canonical.
fileExists(path) ==
    LET validatedPath == _normalizeFilePath(path) IN
    IF IsRevert(validatedPath) THEN validatedPath
    ELSE Ret(_files[_hashString(validatedPath[2])] # "")

\* Mutant: the dry run does not read the revocation flag.
canWritePathNoRevocation(nftContract, tokenId, account, path) ==
    IF ~_isContract(nftContract) THEN Ret(FALSE)
    ELSE IF _ownerOfNftTokenNoRevert(nftContract, tokenId) # account THEN Ret(FALSE)
    ELSE LET validatedPath == _normalizeFilePath(path) IN
         IF IsRevert(validatedPath) THEN validatedPath
         ELSE Ret(_hasPathPermission(nftContract, tokenId, validatedPath[2]))

\* Mutant: a prefix counts as held when a stored prefix covers it.
tokenHasPrefixCoverage(nftContract, tokenId, prefix) ==
    LET validatedPrefix == _normalizePrefixPath(prefix) IN
    IF IsRevert(validatedPrefix) THEN validatedPrefix
    ELSE Ret(\E i \in 1..Len(_tokenPrefixes[nftContract][tokenId]) :
                _isPathInPrefix(validatedPrefix[2], _tokenPrefixes[nftContract][tokenId][i]))

\* tokenHasPrefix is a view: a boolean, or a revert for an invalid prefix.
tokenHasPrefix(nftContract, tokenId, prefix) ==
    LET validatedPrefix == _normalizePrefixPath(prefix) IN
    IF IsRevert(validatedPrefix) THEN validatedPrefix
    ELSE Ret(_containsPrefix(_tokenPrefixes[nftContract][tokenId],
                             _hashString(validatedPrefix[2])))

\* "/a/b" and a file under it
PrefixASlashB == <<SLASH, 97, SLASH, 98>>

PathABF == <<SLASH, 97, SLASH, 98, SLASH, 102>>

\* the prefixes tokenHasPrefix is asked about
AskedPrefixes ==
    {PrefixRoot, PrefixA, PrefixAb, PrefixASlashB, PrefixUpperA,
     PrefixTrailingSlash, PrefixDot, PrefixDoubleSlash, <<>>}

\* Mutant: the dry run validates the path before anything else.
canWritePathPathFirst(nftContract, tokenId, account, path) ==
    LET validatedPath == _normalizeFilePath(path) IN
    IF IsRevert(validatedPath) THEN validatedPath
    ELSE IF ~_isContract(nftContract) THEN Ret(FALSE)
    ELSE IF tokenWriteRevoked[nftContract][tokenId] THEN Ret(FALSE)
    ELSE IF _ownerOfNftTokenNoRevert(nftContract, tokenId) # account THEN Ret(FALSE)
    ELSE Ret(_hasPathPermission(nftContract, tokenId, validatedPath[2]))

\* canWritePath is a view: it returns a boolean or reverts.
canWritePath(nftContract, tokenId, account, path) ==
    IF ~_isContract(nftContract) THEN Ret(FALSE)
    ELSE IF tokenWriteRevoked[nftContract][tokenId] THEN Ret(FALSE)
    ELSE IF _ownerOfNftTokenNoRevert(nftContract, tokenId) # account THEN Ret(FALSE)
    ELSE LET validatedPath == _normalizeFilePath(path) IN
         IF IsRevert(validatedPath) THEN validatedPath
         ELSE Ret(_hasPathPermission(nftContract, tokenId, validatedPath[2]))

(***************************************************************************)
(* Events                                                                  *)
(***************************************************************************)
OwnershipTransferred(previousOwner, newOwner) ==
    [name |-> "OwnershipTransferred", previousOwner |-> previousOwner, newOwner |-> newOwner]

TokenPrefixesReplaced(nftContract, tokenId) ==
    [name |-> "TokenPrefixesReplaced", nftContract |-> nftContract, tokenId |-> tokenId]

TokenWriteRevocationUpdated(nftContract, tokenId, revoked) ==
    [name |-> "TokenWriteRevocationUpdated", nftContract |-> nftContract,
     tokenId |-> tokenId, revoked |-> revoked]

FileUpserted(pathHash, nftContract, tokenId, path, cid, writer) ==
    [name |-> "FileUpserted", pathHash |-> pathHash, nftContract |-> nftContract,
     tokenId |-> tokenId, path |-> path, cid |-> cid, writer |-> writer]

NoProbe == [fn |-> "none"]

(***************************************************************************)
(* PinataFS: external calls.  ...Effect is the storage and the log a call  *)
(* leaves behind, ...Result how it ends.                                   *)
(***************************************************************************)
FsState ==
    [owner |-> owner,
     tokenWriteRevoked |-> tokenWriteRevoked,
     _tokenPrefixes |-> _tokenPrefixes,
     _files |-> _files,
     events |-> events]

\* The call is applied: PinataFS moves to the state the call leaves.  The audit
\* log is capped: a call that would emit is not taken when the log is full.
Apply(effect) ==
    /\ Len(effect.events) <= MaxEvents
    /\ owner' = effect.owner
    /\ tokenWriteRevoked' = effect.tokenWriteRevoked
    /\ _tokenPrefixes' = effect._tokenPrefixes
    /\ _files' = effect._files
    /\ events' = effect.events
    /\ UNCHANGED <<nftVars, probe>>

\* Mutant: a record, once stored, keeps its first cid.
writeFileEffectFirstWins(sender, nftContract, tokenId, path, cid) ==
    LET result == writeFileResult(sender, nftContract, tokenId, path, cid)
        validatedPath == _normalizeFilePath(path)[2]
        pathHash == _hashString(validatedPath)
    IN  IF IsRevert(result) THEN FsState
        ELSE [FsState EXCEPT
                !._files = [@ EXCEPT ![pathHash] = IF @ = "" THEN cid ELSE @],
                !.events = Append(@, FileUpserted(pathHash, nftContract, tokenId,
                                                  validatedPath, cid, sender))]

\* Mutant: a write stores the record without logging it.
writeFileEffectSilent(sender, nftContract, tokenId, path, cid) ==
    LET result == writeFileResult(sender, nftContract, tokenId, path, cid)
        validatedPath == _normalizeFilePath(path)[2]
        pathHash == _hashString(validatedPath)
    IN  IF IsRevert(result) THEN FsState
        ELSE [FsState EXCEPT !._files = [@ EXCEPT ![pathHash] = cid]]

writeFileEffect(sender, nftContract, tokenId, path, cid) ==
    LET result == writeFileResult(sender, nftContract, tokenId, path, cid)
        validatedPath == _normalizeFilePath(path)[2]
        pathHash == _hashString(validatedPath)
        ended == IF IsRevert(result) THEN FsState
                 ELSE [FsState EXCEPT
                         !._files = [@ EXCEPT ![pathHash] = cid],
                         !.events = Append(@, FileUpserted(pathHash, nftContract, tokenId,
                                                           validatedPath, cid, sender))]
    IN  Committed(result, FsState, ended)

writeFile(sender, nftContract, tokenId, path, cid) ==
    Apply(writeFileEffect(sender, nftContract, tokenId, path, cid))

\* Mutant: the new prefixes are added to the stored list instead of replacing it.
replaceTokenPrefixesEffectAppends(sender, nftContract, tokenId, prefixes) ==
    LET result == replaceTokenPrefixesResult(sender, nftContract, tokenId, prefixes)
    IN  IF IsRevert(result) THEN FsState
        ELSE [FsState EXCEPT
                !._tokenPrefixes = [@ EXCEPT ![nftContract][tokenId] =
                                        @ \o _replaceTokenPrefixes(prefixes).written],
                !.events = Append(@, TokenPrefixesReplaced(nftContract, tokenId))]

\* Mutant: granting prefixes also clears the token's revocation flag.
replaceTokenPrefixesEffectUnrevokes(sender, nftContract, tokenId, prefixes) ==
    LET result == replaceTokenPrefixesResult(sender, nftContract, tokenId, prefixes)
    IN  IF IsRevert(result) THEN FsState
        ELSE [FsState EXCEPT
                !._tokenPrefixes = [@ EXCEPT ![nftContract][tokenId] =
                                        _replaceTokenPrefixes(prefixes).written],
                !.tokenWriteRevoked = [@ EXCEPT ![nftContract][tokenId] = FALSE],
                !.events = Append(@, TokenPrefixesReplaced(nftContract, tokenId))]

\* Mutant: a replacement that leaves the stored list as it was logs nothing.
replaceTokenPrefixesEffectQuietOnNoChange(sender, nftContract, tokenId, prefixes) ==
    LET result == replaceTokenPrefixesResult(sender, nftContract, tokenId, prefixes)
        written == _replaceTokenPrefixes(prefixes).written
    IN  IF IsRevert(result) THEN FsState
        ELSE [FsState EXCEPT
                !._tokenPrefixes = [@ EXCEPT ![nftContract][tokenId] = written],
                !.events = IF written = _tokenPrefixes[nftContract][tokenId] THEN @
                           ELSE Append(@, TokenPrefixesReplaced(nftContract, tokenId))]

\* Mutant: the prefix list is kept per contract, for all its token ids at once.
replaceTokenPrefixesEffectPerContract(sender, nftContract, tokenId, prefixes) ==
    LET result == replaceTokenPrefixesResult(sender, nftContract, tokenId, prefixes)
    IN  IF IsRevert(result) THEN FsState
        ELSE [FsState EXCEPT
                !._tokenPrefixes = [@ EXCEPT ![nftContract] =
                                        [t \in DOMAIN @ |->
                                            _replaceTokenPrefixes(prefixes).written]],
                !.events = Append(@, TokenPrefixesReplaced(nftContract, tokenId))]

replaceTokenPrefixesEffect(sender, nftContract, tokenId, prefixes) ==
    LET result == replaceTokenPrefixesResult(sender, nftContract, tokenId, prefixes)
        entered == /\ ~IsRevert(_onlyOwner(sender))
                   /\ ~IsRevert(_requireNftContract(nftContract))
        written == _replaceTokenPrefixes(prefixes).written
        ended == IF ~entered THEN FsState
                 ELSE [FsState EXCEPT
                         !._tokenPrefixes = [@ EXCEPT ![nftContract][tokenId] = written],
                         !.events = IF IsRevert(result) THEN @
                                    ELSE Append(@, TokenPrefixesReplaced(nftContract, tokenId))]
    IN  Committed(result, FsState, ended)

replaceTokenPrefixes(sender, nftContract, tokenId, prefixes) ==
    Apply(replaceTokenPrefixesEffect(sender, nftContract, tokenId, prefixes))

\* Mutant: the flag is stored without an event.
setTokenWriteRevokedEffectSilent(sender, nftContract, tokenId, revoked) ==
    LET result == setTokenWriteRevokedResult(sender, nftContract, tokenId, revoked)
    IN  IF IsRevert(result) THEN FsState
        ELSE [FsState EXCEPT
                !.tokenWriteRevoked = [@ EXCEPT ![nftContract][tokenId] = revoked]]

\* Mutant: the flag is stored and the event emitted whether or not it changes.
setTokenWriteRevokedEffectAlwaysEmits(sender, nftContract, tokenId, revoked) ==
    LET result == setTokenWriteRevokedResult(sender, nftContract, tokenId, revoked)
    IN  IF IsRevert(result) THEN FsState
        ELSE [FsState EXCEPT
                !.tokenWriteRevoked = [@ EXCEPT ![nftContract][tokenId] = revoked],
                !.events = Append(@, TokenWriteRevocationUpdated(nftContract,
                                                                 tokenId, revoked))]

setTokenWriteRevokedEffect(sender, nftContract, tokenId, revoked) ==
    LET result == setTokenWriteRevokedResult(sender, nftContract, tokenId, revoked)
        ended == IF IsRevert(result) THEN FsState
                 ELSE IF tokenWriteRevoked[nftContract][tokenId] = revoked THEN FsState
                 ELSE [FsState EXCEPT
                         !.tokenWriteRevoked = [@ EXCEPT ![nftContract][tokenId] = revoked],
                         !.events = Append(@, TokenWriteRevocationUpdated(nftContract,
                                                                          tokenId, revoked))]
    IN  Committed(result, FsState, ended)

setTokenWriteRevoked(sender, nftContract, tokenId, revoked) ==
    Apply(setTokenWriteRevokedEffect(sender, nftContract, tokenId, revoked))

transferOwnershipEffect(sender, newOwner) ==
    LET result == transferOwnershipResult(sender, newOwner)
        ended == IF IsRevert(result) THEN FsState
                 ELSE [FsState EXCEPT
                         !.owner = newOwner,
                         !.events = Append(@, OwnershipTransferred(owner, newOwner))]
    IN  Committed(result, FsState, ended)

transferOwnership(sender, newOwner) ==
    Apply(transferOwnershipEffect(sender, newOwner))

(***************************************************************************)
(* PermissionNFT: external calls                                           *)
(***************************************************************************)
\* PermissionNFT.owner: the deployer of the collection.
collectionOwner(collection) == DEPLOYER

mintAccessTokenResult(sender, collection, to, transferable) ==
    IF sender # collectionOwner(collection) THEN Err("NotOwner")
    ELSE IF to = ZERO THEN Err("ZeroAddress")
    ELSE OK

mintAccessToken(sender, collection, to, transferable) ==
    LET result == mintAccessTokenResult(sender, collection, to, transferable)
        tokenId == _nextTokenId[collection]
    IN  /\ tokenId \in TokenIds
        /\ IF IsRevert(result)
           THEN UNCHANGED vars
           ELSE /\ _nextTokenId' = [_nextTokenId EXCEPT ![collection] = tokenId + 1]
                /\ _ownerOf' = [_ownerOf EXCEPT ![collection][tokenId] = to]
                /\ _balanceOf' = [_balanceOf EXCEPT ![collection][to] = @ + 1]
                /\ tokenTransferable' =
                      [tokenTransferable EXCEPT ![collection][tokenId] = transferable]
                /\ UNCHANGED <<fsVars, _tokenApprovals, _operatorApprovals, probe>>

approveResult(sender, collection, to, tokenId) ==
    LET tokenOwner == ownerOf(collection, tokenId) IN
    IF IsRevert(tokenOwner) THEN tokenOwner
    ELSE IF sender # tokenOwner[2] /\ ~_operatorApprovals[collection][tokenOwner[2]][sender]
    THEN Err("NotAuthorized")
    ELSE OK

approve(sender, collection, to, tokenId) ==
    LET result == approveResult(sender, collection, to, tokenId)
    IN  IF IsRevert(result)
        THEN UNCHANGED vars
        ELSE /\ _tokenApprovals' = [_tokenApprovals EXCEPT ![collection][tokenId] = to]
             /\ UNCHANGED <<fsVars, _ownerOf, _balanceOf, _operatorApprovals,
                            tokenTransferable, _nextTokenId, probe>>

setApprovalForAllResult(sender, collection, operator, approved) ==
    IF operator = sender THEN Err("InvalidOperator") ELSE OK

setApprovalForAll(sender, collection, operator, approved) ==
    LET result == setApprovalForAllResult(sender, collection, operator, approved)
    IN  IF IsRevert(result)
        THEN UNCHANGED vars
        ELSE /\ _operatorApprovals' =
                   [_operatorApprovals EXCEPT ![collection][sender][operator] = approved]
             /\ UNCHANGED <<fsVars, _ownerOf, _balanceOf, _tokenApprovals,
                            tokenTransferable, _nextTokenId, probe>>

\* Mutant: the transferability flag is not consulted.
transferFromResultNoSoulbound(sender, collection, from, to, tokenId) ==
    LET tokenOwner == ownerOf(collection, tokenId) IN
    IF to = ZERO THEN Err("ZeroAddress")
    ELSE IF IsRevert(tokenOwner) THEN tokenOwner
    ELSE IF tokenOwner[2] # from THEN Err("IncorrectOwner")
    ELSE IF ~_isApprovedOrOwner(collection, sender, tokenId, tokenOwner[2])
    THEN Err("NotAuthorized")
    ELSE OK

transferFromResult(sender, collection, from, to, tokenId) ==
    LET tokenOwner == ownerOf(collection, tokenId) IN
    IF to = ZERO THEN Err("ZeroAddress")
    ELSE IF IsRevert(tokenOwner) THEN tokenOwner
    ELSE IF ~tokenTransferable[collection][tokenId]
    THEN <<"revert", "TokenSoulbound", tokenId>>
    ELSE IF tokenOwner[2] # from THEN Err("IncorrectOwner")
    ELSE IF ~_isApprovedOrOwner(collection, sender, tokenId, tokenOwner[2])
    THEN Err("NotAuthorized")
    ELSE OK

\* Mutant: a transfer clears the revocation flag of the token's key.
transferFromResetsKey(sender, collection, from, to, tokenId) ==
    LET result == transferFromResult(sender, collection, from, to, tokenId)
    IN  IF IsRevert(result)
        THEN UNCHANGED vars
        ELSE /\ _tokenApprovals' = [_tokenApprovals EXCEPT ![collection][tokenId] = ZERO]
             /\ _balanceOf' =
                   [_balanceOf EXCEPT ![collection] =
                       [[@ EXCEPT ![from] = @ - 1] EXCEPT ![to] = @ + 1]]
             /\ _ownerOf' = [_ownerOf EXCEPT ![collection][tokenId] = to]
             /\ tokenWriteRevoked' =
                   [tokenWriteRevoked EXCEPT ![collection][tokenId] = FALSE]
             /\ UNCHANGED <<owner, _tokenPrefixes, _files, events, _operatorApprovals,
                            tokenTransferable, _nextTokenId, probe>>

transferFrom(sender, collection, from, to, tokenId) ==
    LET result == transferFromResult(sender, collection, from, to, tokenId)
    IN  IF IsRevert(result)
        THEN UNCHANGED vars
        ELSE /\ _tokenApprovals' = [_tokenApprovals EXCEPT ![collection][tokenId] = ZERO]
             /\ _balanceOf' =
                   [_balanceOf EXCEPT ![collection] =
                       [[@ EXCEPT ![from] = @ - 1] EXCEPT ![to] = @ + 1]]
             /\ _ownerOf' = [_ownerOf EXCEPT ![collection][tokenId] = to]
             /\ UNCHANGED <<fsVars, _operatorApprovals, tokenTransferable,
                            _nextTokenId, probe>>

\* The receiver callback of safeTransferFrom: none of the deployed contracts
\* declares onERC721Received or a fallback, so the call into them reverts.
onERC721Received(to) == Err("")

safeTransferFromResult(sender, collection, from, to, tokenId) ==
    LET moved == transferFromResult(sender, collection, from, to, tokenId)
    IN  IF IsRevert(moved) THEN moved
        ELSE IF ~_isContract(to) THEN OK
        ELSE LET returnValue == onERC721Received(to) IN
             IF IsRevert(returnValue) THEN returnValue
             ELSE IF returnValue[2] # "onERC721Received.selector"
             THEN Err("UnsafeRecipient")
             ELSE OK

safeTransferFrom(sender, collection, from, to, tokenId) ==
    LET result == safeTransferFromResult(sender, collection, from, to, tokenId)
    IN  IF IsRevert(result)
        THEN UNCHANGED vars
        ELSE transferFrom(sender, collection, from, to, tokenId)

(***************************************************************************)
(* The system: the contracts after construction, then any call.  The      *)
(* writes of Spec name the collection NFT, the contract FS (code without   *)
(* ownerOf) and ALICE (no code) as nftContract; its admin calls name NFT   *)
(* and ALICE.                                                              *)
(***************************************************************************)
InitContracts ==
    /\ owner = DEPLOYER
    /\ tokenWriteRevoked = [c \in NftContracts |-> [t \in StoredTokenIds |-> FALSE]]
    /\ _tokenPrefixes = [c \in NftContracts |-> [t \in StoredTokenIds |-> <<>>]]
    /\ _files = [h \in FileHashes |-> ""]
    /\ events = <<OwnershipTransferred(ZERO, DEPLOYER)>>
    /\ _ownerOf = [c \in Collections |-> [t \in TokenIds |-> ZERO]]
    /\ _balanceOf = [c \in Collections |-> [a \in Addresses |-> 0]]
    /\ _tokenApprovals = [c \in Collections |-> [t \in TokenIds |-> ZERO]]
    /\ _operatorApprovals =
          [c \in Collections |-> [a \in Addresses |-> [o \in Addresses |-> FALSE]]]
    /\ tokenTransferable = [c \in Collections |-> [t \in TokenIds |-> FALSE]]
    /\ _nextTokenId = [c \in Collections |-> 1]

Init ==
    /\ InitContracts
    /\ probe = NoProbe

SpecContracts == {NFT, FS, ALICE}

AdminContracts == {NFT, ALICE}

WriteFile ==
    \E sender \in Senders, nftContract \in SpecContracts, tokenId \in TokenIds,
       path \in RawPaths, cid \in Cids :
        writeFile(sender, nftContract, tokenId, path, cid)

ReplaceTokenPrefixes ==
    \E sender \in Senders, nftContract \in AdminContracts, tokenId \in TokenIds,
       prefixes \in PrefixLists :
        replaceTokenPrefixes(sender, nftContract, tokenId, prefixes)

SetTokenWriteRevoked ==
    \E sender \in Senders, nftContract \in AdminContracts, tokenId \in TokenIds,
       revoked \in BOOLEAN :
        setTokenWriteRevoked(sender, nftContract, tokenId, revoked)

TransferOwnership ==
    \E sender \in Senders, newOwner \in {BOB, ZERO} :
        transferOwnership(sender, newOwner)

MintAccessToken ==
    \E sender \in Senders, to \in Holders \cup {ZERO}, transferable \in BOOLEAN :
        mintAccessToken(sender, NFT, to, transferable)

TransferFrom ==
    \E sender \in Holders, from \in Holders, to \in Holders \cup {ZERO},
       tokenId \in TokenIds :
        transferFrom(sender, NFT, from, to, tokenId)

Next ==
    \/ WriteFile
    \/ ReplaceTokenPrefixes
    \/ SetTokenWriteRevoked
    \/ TransferOwnership
    \/ MintAccessToken
    \/ TransferFrom

Spec == Init /\ [][Next]_vars

(***************************************************************************)
(* The same contracts with the ERC-721 approvals in play: the holders       *)
(* approve spenders and operators on NFT, the admin grants "/a" or nothing  *)
(* to the key (NFT, 1), and anyone tries to write "/a/f".                   *)
(***************************************************************************)
Approve ==
    \E sender \in Holders, to \in Holders \cup {ZERO}, tokenId \in TokenIds :
        approve(sender, NFT, to, tokenId)

SetApprovalForAll ==
    \E sender \in Holders, operator \in Holders, approved \in BOOLEAN :
        setApprovalForAll(sender, NFT, operator, approved)

SafeTransferFrom ==
    \E sender \in Holders, from \in Holders, to \in Holders \cup {ZERO, FS},
       tokenId \in TokenIds :
        safeTransferFrom(sender, NFT, from, to, tokenId)

GrantPrefixes ==
    \E sender \in Senders, tokenId \in TokenIds, prefixes \in {<<>>, <<PrefixA>>} :
        replaceTokenPrefixes(sender, NFT, tokenId, prefixes)

WriteAsAnyone ==
    \E sender \in Senders, tokenId \in TokenIds, cid \in Cids :
        writeFile(sender, NFT, tokenId, PathAF, cid)

NextApprovals ==
    \/ MintAccessToken
    \/ Approve
    \/ SetApprovalForAll
    \/ TransferFrom
    \/ SafeTransferFrom
    \/ GrantPrefixes
    \/ WriteAsAnyone

SpecApprovals == Init /\ [][NextApprovals]_vars

(***************************************************************************)
(* Two keys: token 1 of NFT and token 1 of EXT, each minted to a holder,    *)
(* granted "/a", "/ab" or nothing, revoked or not, and used for writes.     *)
(***************************************************************************)
MintEither ==
    \E sender \in Senders, collection \in Collections, to \in Holders :
        mintAccessToken(sender, collection, to, FALSE)

GrantEither ==
    \E sender \in Senders, collection \in Collections, tokenId \in TokenIds,
       prefixes \in {<<>>, <<PrefixA>>, <<PrefixAb>>} :
        replaceTokenPrefixes(sender, collection, tokenId, prefixes)

RevokeEither ==
    \E sender \in Senders, collection \in Collections, tokenId \in TokenIds,
       revoked \in BOOLEAN :
        setTokenWriteRevoked(sender, collection, tokenId, revoked)

WriteEither ==
    \E sender \in Holders, collection \in Collections, tokenId \in TokenIds,
       path \in {PathAF, PathAbF} :
        writeFile(sender, collection, tokenId, path, "v1")

NextTwoKeys ==
    \/ MintEither
    \/ GrantEither
    \/ RevokeEither
    \/ WriteEither

SpecTwoKeys == Init /\ [][NextTwoKeys]_vars

(***************************************************************************)
(* Four keys: two collections with two token ids each, administered one    *)
(* key at a time, and a token of the second collection used to write.      *)
(***************************************************************************)
GrantAnyKey ==
    \E sender \in Senders, collection \in Collections, tokenId \in StoredTokenIds,
       prefixes \in {<<>>, <<PrefixA>>} :
        replaceTokenPrefixes(sender, collection, tokenId, prefixes)

RevokeAnyKey ==
    \E sender \in Senders, collection \in Collections, tokenId \in StoredTokenIds,
       revoked \in BOOLEAN :
        setTokenWriteRevoked(sender, collection, tokenId, revoked)

MintExternal ==
    \E sender \in Senders, to \in Holders :
        mintAccessToken(sender, EXT, to, TRUE)

WriteExternal ==
    \E sender \in Holders, tokenId \in StoredTokenIds, path \in {PathAF, PathAbF} :
        writeFile(sender, EXT, tokenId, path, "v1")

NextFourKeys ==
    \/ GrantAnyKey
    \/ RevokeAnyKey
    \/ MintExternal
    \/ WriteExternal

SpecFourKeys == Init /\ [][NextFourKeys]_vars

(***************************************************************************)
(* The matcher on its own: every canonical file path against every         *)
(* canonical prefix, over strings of at most MaxLen bytes.                 *)
(***************************************************************************)
Alphabet == {SLASH, DOT, UpperA, LowerA, Digit0}

Strings == UNION {[1..n -> Alphabet] : n \in 0..MaxLen}

CanonicalFilePaths == {str \in Strings : ~IsRevert(_normalizeFilePath(str))}

CanonicalPrefixes == {str \in Strings : ~IsRevert(_normalizePrefixPath(str))}

MatcherInit ==
    /\ InitContracts
    /\ probe \in [fn : {"_isPathInPrefix"}, path : CanonicalFilePaths,
                   prefix : CanonicalPrefixes, done : {FALSE}, out : {FALSE}]

ApplyMatcher ==
    /\ probe.fn = "_isPathInPrefix"
    /\ ~probe.done
    /\ probe' = [probe EXCEPT !.done = TRUE,
                              !.out = _isPathInPrefix(probe.path, probe.prefix)]
    /\ UNCHANGED <<fsVars, nftVars>>

MatcherNext == ApplyMatcher

MatcherSpec == MatcherInit /\ [][MatcherNext]_vars

(***************************************************************************)
(* The path normalizer and the SDK's validator.  The SDK works on the      *)
(* UTF-16 code units of a JavaScript string; the contract receives the     *)
(* UTF-8 bytes of the same string.                                         *)
(***************************************************************************)
MaxPathLen == 6

\* a code unit outside ASCII (U+00E9)
EAcute == 233

CodeUnits == 0..255

\* UTF-8 encoding of one code unit below U+0800
Utf8Unit(unit) ==
    IF unit < 128 THEN <<unit>>
    ELSE <<192 + (unit \div 64), 128 + (unit % 64)>>

RECURSIVE Utf8(_)
Utf8(str) ==
    IF str = <<>> THEN <<>> ELSE Utf8Unit(Head(str)) \o Utf8(Tail(str))

\* The for loop of validatePathValue and the checks that follow it.
RECURSIVE validateLoop(_, _, _, _)
validateLoop(path, allowDotInFinalSegment, i, st) ==
    IF i > Len(path)
    THEN IF st.previousWasSlash THEN Err("Error")
         ELSE IF st.segmentLength = 0 THEN Err("Error")
         ELSE IF st.segmentEndsWithDot THEN Err("Error")
         ELSE IF ~allowDotInFinalSegment /\ st.segmentDotCount > 0 THEN Err("Error")
         ELSE OK
    ELSE LET current == path[i]
             code == current
             isUpperAlpha == code >= 65 /\ code <= 90
             isLowerAlpha == code >= 97 /\ code <= 122
             isDigit == code >= 48 /\ code <= 57
         IN
         IF current = SLASH
         THEN IF st.previousWasSlash THEN Err("Error")
              ELSE IF st.segmentDotCount > 0 THEN Err("Error")
              ELSE validateLoop(path, allowDotInFinalSegment, i + 1,
                       [previousWasSlash |-> TRUE,
                        segmentLength |-> 0,
                        segmentDotCount |-> 0,
                        segmentEndsWithDot |-> FALSE])
         ELSE IF isUpperAlpha \/ isLowerAlpha \/ isDigit
                 \/ current = HYPHEN \/ current = UNDERSCORE
         THEN validateLoop(path, allowDotInFinalSegment, i + 1,
                       [st EXCEPT !.segmentEndsWithDot = FALSE,
                                  !.segmentLength = @ + 1,
                                  !.previousWasSlash = FALSE])
         ELSE IF current = DOT
         THEN IF ~allowDotInFinalSegment THEN Err("Error")
              ELSE IF st.segmentLength = 0 THEN Err("Error")
              ELSE IF st.segmentDotCount + 1 > 1 THEN Err("Error")
              ELSE validateLoop(path, allowDotInFinalSegment, i + 1,
                       [st EXCEPT !.segmentDotCount = @ + 1,
                                  !.segmentEndsWithDot = TRUE,
                                  !.segmentLength = @ + 1,
                                  !.previousWasSlash = FALSE])
         ELSE Err("Error")

validatePathValue(path, allowDotInFinalSegment, allowRootOnly) ==
    LET length == Len(path)
    IN  IF length = 0 \/ path[1] # SLASH THEN Err("Error")
        ELSE IF length = 1
        THEN IF ~allowRootOnly THEN Err("Error") ELSE OK
        ELSE validateLoop(path, allowDotInFinalSegment, 2,
                 [previousWasSlash |-> TRUE,
                  segmentLength |-> 0,
                  segmentDotCount |-> 0,
                  segmentEndsWithDot |-> FALSE])

validatePrefixPath(prefix) == validatePathValue(prefix, FALSE, TRUE)

\* Mutant: the SDK lets the bare root through as a file path.
validateFilePathRootOk(path) == validatePathValue(path, TRUE, TRUE)

validateFilePath(path) == validatePathValue(path, TRUE, FALSE)

\* external views of the contract
normalizePrefixPath(prefix) == _normalizePrefixPath(prefix)

normalizeFilePath(path) == _normalizeFilePath(path)

PathAlphabet == {SLASH, DOT, LowerA, UpperZ, UNDERSCORE, EAcute}

PathStrings == UNION {[1..n -> PathAlphabet] : n \in 0..MaxPathLen}

\* every code unit as a whole segment and in the middle of one
UnitSweep ==
    {<<SLASH, unit>> : unit \in CodeUnits}
        \cup {<<SLASH, LowerA, unit, UpperZ>> : unit \in CodeUnits}

\* "/a/../b.json"
DotDotSegment == <<SLASH, 97, SLASH, DOT, DOT, SLASH, 98, DOT, 106, 115, 111, 110>>

\* "/a/b..json"
DoubleDot == <<SLASH, 97, SLASH, 98, DOT, DOT, 106, 115, 111, 110>>

\* "/a/.b"
LeadingDot == <<SLASH, 97, SLASH, DOT, 98>>

\* "/a/b."
TrailingDot == <<SLASH, 97, SLASH, 98, DOT>>

\* "/a.b/c"
DotInDirectory == <<SLASH, 97, DOT, 98, SLASH, 99>>

\* "/a/b.json"
DotInFile == <<SLASH, 97, SLASH, 98, DOT, 106, 115, 111, 110>>

DotExamples ==
    {DotDotSegment, DoubleDot, LeadingDot, TrailingDot, DotInDirectory, DotInFile}

NormalizerInputs == PathStrings \cup UnitSweep \cup DotExamples

NormalizerFns ==
    {"normalizePrefixPath", "normalizeFilePath", "validatePrefixPath", "validateFilePath"}

NormalizerInit ==
    /\ InitContracts
    /\ probe \in [fn : NormalizerFns, path : NormalizerInputs,
                   done : {FALSE}, out : {<<>>}]

CallNormalizePrefixPath ==
    /\ probe.fn = "normalizePrefixPath"
    /\ ~probe.done
    /\ probe' = [probe EXCEPT !.done = TRUE,
                              !.out = normalizePrefixPath(Utf8(probe.path))]
    /\ UNCHANGED <<fsVars, nftVars>>

CallNormalizeFilePath ==
    /\ probe.fn = "normalizeFilePath"
    /\ ~probe.done
    /\ probe' = [probe EXCEPT !.done = TRUE,
                              !.out = normalizeFilePath(Utf8(probe.path))]
    /\ UNCHANGED <<fsVars, nftVars>>

CallValidatePrefixPath ==
    /\ probe.fn = "validatePrefixPath"
    /\ ~probe.done
    /\ probe' = [probe EXCEPT !.done = TRUE,
                              !.out = validatePrefixPath(probe.path)]
    /\ UNCHANGED <<fsVars, nftVars>>

CallValidateFilePath ==
    /\ probe.fn = "validateFilePath"
    /\ ~probe.done
    /\ probe' = [probe EXCEPT !.done = TRUE,
                              !.out = validateFilePath(probe.path)]
    /\ UNCHANGED <<fsVars, nftVars>>

NormalizerNext ==
    \/ CallNormalizePrefixPath
    \/ CallNormalizeFilePath
    \/ CallValidatePrefixPath
    \/ CallValidateFilePath

NormalizerSpec == NormalizerInit /\ [][NormalizerNext]_vars

(***************************************************************************)
(* The SDK's scan of Transfer logs, getReceivedTransferTokenIds.  Each     *)
(* recursive call is a frame on probe.stack, each await a step; getLogs    *)
(* answers or throws as the RPC provider decides.                          *)
(***************************************************************************)
MaxBlock == 3

Blocks == 0..MaxBlock

\* the token ids of the Transfer logs of blocks fromBlock..toBlock, in block
\* order; block b holds one log, for token b + 1, when b is in logBlocks
RECURSIVE getLogs(_, _, _)
getLogs(logBlocks, fromBlock, toBlock) ==
    IF toBlock < fromBlock THEN <<>>
    ELSE (IF fromBlock \in logBlocks THEN <<fromBlock + 1>> ELSE <<>>)
             \o getLogs(logBlocks, fromBlock + 1, toBlock)

midpoint(fromBlock, toBlock) == fromBlock + ((toBlock - fromBlock) \div 2)

Frame(fromBlock, toBlock) ==
    [fromBlock |-> fromBlock, toBlock |-> toBlock, pc |-> "call",
     midpoint |-> fromBlock, left |-> <<>>]

\* the first recursive call: the range up to the midpoint
leftCall(frame) == Frame(frame.fromBlock, frame.midpoint)

\* Mutant: the second recursive call starts one block too late.
rightCallSkipsBlock(frame) == Frame(frame.midpoint + 2, frame.toBlock)

\* the second recursive call: the range after the midpoint
rightCall(frame) == Frame(frame.midpoint + 1, frame.toBlock)

NoReturn == <<"pending">>

Top == probe.stack[Len(probe.stack)]

\* the running call returns value: to its caller, or as the scan's result
Returns(p, value) ==
    LET rest == SubSeq(p.stack, 1, Len(p.stack) - 1)
    IN  IF rest = <<>>
        THEN [p EXCEPT !.stack = rest, !.done = TRUE, !.out = value]
        ELSE [p EXCEPT !.stack = rest, !.ret = <<"value", value>>]

Scanning ==
    /\ probe.fn = "getReceivedTransferTokenIds"
    /\ probe.stack # <<>>

ScanInit ==
    /\ InitContracts
    /\ \E logBlocks \in SUBSET Blocks, fromBlock \in Blocks, toBlock \in Blocks :
          probe = [fn |-> "getReceivedTransferTokenIds",
                   logBlocks |-> logBlocks,
                   fromBlock |-> fromBlock,
                   toBlock |-> toBlock,
                   stack |-> <<Frame(fromBlock, toBlock)>>,
                   ret |-> NoReturn,
                   calls |-> <<>>,
                   done |-> FALSE,
                   out |-> <<>>]

\* if (params.toBlock < params.fromBlock) return [];
ReturnEmptyRange ==
    /\ Scanning
    /\ Top.pc = "call"
    /\ Top.toBlock < Top.fromBlock
    /\ probe' = Returns(probe, <<>>)
    /\ UNCHANGED <<fsVars, nftVars>>

\* getLogs answers: the token ids of its logs are returned
GetLogsReturns ==
    /\ Scanning
    /\ Top.pc = "call"
    /\ Top.toBlock >= Top.fromBlock
    /\ probe' = Returns([probe EXCEPT !.calls =
                            Append(@, [fromBlock |-> Top.fromBlock,
                                       toBlock |-> Top.toBlock, ok |-> TRUE])],
                        getLogs(probe.logBlocks, Top.fromBlock, Top.toBlock))
    /\ UNCHANGED <<fsVars, nftVars>>

\* getLogs throws: a single block gives up, a longer range is split and its
\* first half scanned
GetLogsThrows ==
    /\ Scanning
    /\ Top.pc = "call"
    /\ Top.toBlock >= Top.fromBlock
    /\ LET called == [probe EXCEPT !.calls =
                         Append(@, [fromBlock |-> Top.fromBlock,
                                    toBlock |-> Top.toBlock, ok |-> FALSE])]
           split == [Top EXCEPT !.pc = "left",
                                !.midpoint = midpoint(Top.fromBlock, Top.toBlock)]
       IN  IF Top.fromBlock = Top.toBlock
           THEN probe' = Returns(called, <<>>)
           ELSE probe' = [called EXCEPT
                            !.stack = Append([@ EXCEPT ![Len(@)] = split],
                                             leftCall(split))]
    /\ UNCHANGED <<fsVars, nftVars>>

\* the first half has returned: the second half is scanned
ResumeAfterLeft ==
    /\ Scanning
    /\ Top.pc = "left"
    /\ probe.ret # NoReturn
    /\ LET waiting == [Top EXCEPT !.pc = "right", !.left = probe.ret[2]]
       IN  probe' = [probe EXCEPT
                        !.ret = NoReturn,
                        !.stack = Append([@ EXCEPT ![Len(@)] = waiting],
                                         rightCall(waiting))]
    /\ UNCHANGED <<fsVars, nftVars>>

\* the second half has returned: return [...left, ...right]
ResumeAfterRight ==
    /\ Scanning
    /\ Top.pc = "right"
    /\ probe.ret # NoReturn
    /\ probe' = Returns([probe EXCEPT !.ret = NoReturn], Top.left \o probe.ret[2])
    /\ UNCHANGED <<fsVars, nftVars>>

ScanNext ==
    \/ ReturnEmptyRange
    \/ GetLogsReturns
    \/ GetLogsThrows
    \/ ResumeAfterLeft
    \/ ResumeAfterRight

\* every await of the scan is eventually resumed
ScanSpec == ScanInit /\ [][ScanNext]_vars /\ WF_vars(ScanNext)
(***************************************************************************)
(* Demo UI (App): the two effects that load the permissions of the         *)
(* selected key.  probe holds the component state, the two selections the  *)
(* effects depend on and the loads whose await has not resumed yet.  An    *)
(* effect run is the cleanup of the previous run followed by the body of   *)
(* the new one; a pending load resumes at any later time, in any order.    *)
(***************************************************************************)
\* PinataFS.getTokenPrefixes, as the SDK reads it
getTokenPrefixes(nftContract, tokenId) == _tokenPrefixes[nftContract][tokenId]

\* PinataFS.tokenWriteRevoked, as the SDK's isTokenWriteRevoked reads it
isTokenWriteRevoked(nftContract, tokenId) == tokenWriteRevoked[nftContract][tokenId]

\* the value of a state that holds no answer: useState(null)
null == <<"null">>

\* the selections a panel can hold: a key, or inputs that name no key
UiKeys == {<<NFT, 1>>, <<NFT, 2>>}
Selections == UiKeys \cup {null}

\* prefixes.join("\n")
RECURSIVE join(_)
join(prefixes) ==
    IF Len(prefixes) = 0 THEN <<>>
    ELSE IF Len(prefixes) = 1 THEN prefixes[1]
    ELSE prefixes[1] \o <<10>> \o join(Tail(prefixes))

\* a run of an effect body that reached its await: the key it captured and
\* the cancelled flag of its closure
Load(effect, key) == [effect |-> effect, key |-> key, cancelled |-> FALSE]

\* the cleanup function of an effect: cancelled = true in the closure of its
\* last run.  A cancelled load changes nothing when it resumes, so two
\* cancelled loads of one key are not told apart.
cleanup(pending, effect) ==
    {[load EXCEPT !.cancelled = @ \/ load.effect = effect] : load \in pending}

\* the body of the first effect, run for the key now selected for writing
loadPermissionsEffect(ui, key) ==
    LET cleared == [ui EXCEPT !.selectedTokenPermissionError = "",
                              !.selectedTokenPermissionStatus = "",
                              !.selectedTokenPrefixes = <<>>,
                              !.selectedTokenWriteRevoked = null,
                              !.pending = cleanup(@, "loadPermissions")]
    IN  IF key = null THEN cleared
        ELSE [cleared EXCEPT
                !.selectedTokenPermissionStatus = "Checking filesystem permissions",
                !.pending = @ \cup {Load("loadPermissions", key)}]

\* the body of the second effect, run for the key now selected in the
\* administrator's editor
loadCurrentPermissionPrefixesEffect(ui, key) ==
    LET cleared == [ui EXCEPT !.permissionLoadError = "",
                              !.permissionLoadStatus = "",
                              !.pending = cleanup(@, "loadCurrentPermissionPrefixes")]
    IN  IF key = null
        THEN [cleared EXCEPT !.permissionLoadedPrefixes = <<>>,
                             !.permissionPrefixesInput = <<>>]
        ELSE [cleared EXCEPT
                !.permissionLoadStatus = "Loading current prefixes",
                !.pending = @ \cup {Load("loadCurrentPermissionPrefixes", key)}]

\* App as mounted: no key is selected in either panel and both effects have
\* run once.  The administrator has granted /a to key 1 and /ab to key 2 and
\* has revoked key 2.
UiInit ==
    /\ owner = DEPLOYER
    /\ tokenWriteRevoked =
          [c \in NftContracts |-> [t \in StoredTokenIds |-> c = NFT /\ t = 2]]
    /\ _tokenPrefixes =
          [c \in NftContracts |-> [t \in StoredTokenIds |->
              IF c # NFT THEN <<>> ELSE IF t = 1 THEN <<PrefixA>> ELSE <<PrefixAb>>]]
    /\ _files = [h \in FileHashes |-> ""]
    /\ events = <<OwnershipTransferred(ZERO, DEPLOYER),
                  TokenPrefixesReplaced(NFT, 1),
                  TokenPrefixesReplaced(NFT, 2),
                  TokenWriteRevocationUpdated(NFT, 2, TRUE)>>
    /\ _ownerOf = [c \in Collections |-> [t \in TokenIds |-> ZERO]]
    /\ _balanceOf = [c \in Collections |-> [a \in Addresses |-> 0]]
    /\ _tokenApprovals = [c \in Collections |-> [t \in TokenIds |-> ZERO]]
    /\ _operatorApprovals =
          [c \in Collections |-> [a \in Addresses |-> [o \in Addresses |-> FALSE]]]
    /\ tokenTransferable = [c \in Collections |-> [t \in TokenIds |-> FALSE]]
    /\ _nextTokenId = [c \in Collections |-> 1]
    /\ probe = [fn |-> "App",
                writeToken |-> null,
                permissionToken |-> null,
                selectedTokenPrefixes |-> <<>>,
                selectedTokenWriteRevoked |-> null,
                selectedTokenPermissionStatus |-> "",
                selectedTokenPermissionError |-> "",
                permissionLoadedPrefixes |-> <<>>,
                permissionPrefixesInput |-> <<>>,
                permissionLoadStatus |-> "",
                permissionLoadError |-> "",
                pending |-> {}]

\* writeNftContract or writeTokenIdValue changes: the first effect runs again
SelectWriteToken ==
    /\ \E key \in Selections \ {probe.writeToken} :
          probe' = loadPermissionsEffect([probe EXCEPT !.writeToken = key], key)
    /\ UNCHANGED <<fsVars, nftVars>>

\* permissionNftContractForUpsert or permissionTokenIdValue changes: the
\* second effect runs again
SelectPermissionToken ==
    /\ \E key \in Selections \ {probe.permissionToken} :
          probe' = loadCurrentPermissionPrefixesEffect(
                       [probe EXCEPT !.permissionToken = key], key)
    /\ UNCHANGED <<fsVars, nftVars>>

\* loadPermissions resumes after Promise.all with both answers
LoadPermissionsResolves ==
    /\ \E load \in probe.pending :
          /\ load.effect = "loadPermissions"
          /\ LET prefixes == getTokenPrefixes(load.key[1], load.key[2])
                 writeRevoked == isTokenWriteRevoked(load.key[1], load.key[2])
                 resumed == [probe EXCEPT !.pending = @ \ {load}]
             IN  probe' =
                   IF load.cancelled THEN resumed
                   ELSE [resumed EXCEPT
                           !.selectedTokenPrefixes = prefixes,
                           !.selectedTokenWriteRevoked = Ret(writeRevoked),
                           !.selectedTokenPermissionStatus =
                               IF Len(prefixes) > 0
                               THEN "Filesystem permissions loaded."
                               ELSE "No filesystem prefixes found for this NFT."]
    /\ UNCHANGED <<fsVars, nftVars>>

\* loadPermissions resumes in its catch block: one of the two reads failed
LoadPermissionsRejects ==
    /\ \E load \in probe.pending :
          /\ load.effect = "loadPermissions"
          /\ LET resumed == [probe EXCEPT !.pending = @ \ {load}]
             IN  probe' =
                   IF load.cancelled THEN resumed
                   ELSE [resumed EXCEPT
                           !.selectedTokenPermissionError = "Failed to load"]
    /\ UNCHANGED <<fsVars, nftVars>>

\* loadCurrentPermissionPrefixes resumes with the prefixes of its key
LoadCurrentPermissionPrefixesResolves ==
    /\ \E load \in probe.pending :
          /\ load.effect = "loadCurrentPermissionPrefixes"
          /\ LET prefixes == getTokenPrefixes(load.key[1], load.key[2])
                 resumed == [probe EXCEPT !.pending = @ \ {load}]
             IN  probe' =
                   IF load.cancelled THEN resumed
                   ELSE [resumed EXCEPT
                           !.permissionLoadedPrefixes = prefixes,
                           !.permissionPrefixesInput = join(prefixes),
                           !.permissionLoadStatus =
                               IF Len(prefixes) > 0
                               THEN "Loaded current prefixes into editor."
                               ELSE "No current prefixes found for this NFT."]
    /\ UNCHANGED <<fsVars, nftVars>>

\* loadCurrentPermissionPrefixes resumes in its catch block
LoadCurrentPermissionPrefixesRejects ==
    /\ \E load \in probe.pending :
          /\ load.effect = "loadCurrentPermissionPrefixes"
          /\ LET resumed == [probe EXCEPT !.pending = @ \ {load}]
             IN  probe' =
                   IF load.cancelled THEN resumed
                   ELSE [resumed EXCEPT
                           !.permissionLoadedPrefixes = <<>>,
                           !.permissionPrefixesInput = <<>>,
                           !.permissionLoadError = "Failed to load"]
    /\ UNCHANGED <<fsVars, nftVars>>

UiNext ==
    \/ SelectWriteToken
    \/ SelectPermissionToken
    \/ LoadPermissionsResolves
    \/ LoadPermissionsRejects
    \/ LoadCurrentPermissionPrefixesResolves
    \/ LoadCurrentPermissionPrefixesRejects

UiSpec == UiInit /\ [][UiNext]_vars




(***************************************************************************)
(* Properties                                                              *)
(***************************************************************************)
Range(seq) == {seq[i] : i \in 1..Len(seq)}

\* q is a byte-for-byte prefix of p
StartsWith(p, q) == Len(p) >= Len(q) /\ SubSeq(p, 1, Len(q)) = q

\* The strict-subtree relation as the specification words it.
InSubtree(p, q) ==
    \/ q = <<SLASH>>
    \/ p = q
    \/ (StartsWith(p, q) /\ Len(p) > Len(q) /\ p[Len(q) + 1] = SLASH)

\* C3: for every canonical file path p and canonical prefix q, the matcher
\* answers true iff q is the root, or p equals q byte for byte, or p starts with
\* q and the byte of p right after q is "/" (so "/a" does not match "/aa", and
\* "/A" does not match "/a").
C3_StrictSubtreeMatcher ==
    (probe.fn = "_isPathInPrefix" /\ probe.done)
        => (probe.out = InSubtree(probe.path, probe.prefix))

\* C3 witness: the matcher has rejected the sibling path "/aa/a" for the
\* prefix "/a".
C3_Witness ==
    /\ probe.fn = "_isPathInPrefix"
    /\ probe.done
    /\ probe.prefix = <<SLASH, LowerA>>
    /\ probe.path = <<SLASH, LowerA, LowerA, SLASH, LowerA>>
    /\ probe.out = FALSE

(***************************************************************************)
(* Properties of the write path                                            *)
(***************************************************************************)
\* What the ownership oracle answers for a key: the holder, or nothing when
\* the call cannot resolve one.
Unresolvable == "unresolvable"

Oracle(nftContract, tokenId) ==
    IF nftContract \in Collections /\ _ownerOf[nftContract][tokenId] # ZERO
    THEN _ownerOf[nftContract][tokenId]
    ELSE Unresolvable

IsCanonicalFilePath(path) == ~IsRevert(_normalizeFilePath(path))

Covered(nftContract, tokenId, path) ==
    \E q \in Range(_tokenPrefixes[nftContract][tokenId]) : InSubtree(path, q)

\* The first write precondition that fails, in the specification's order.
FirstFailure(sender, nftContract, tokenId, path, cid) ==
    IF cid = "" THEN Err("EmptyCid")
    ELSE IF nftContract \notin Deployed THEN Err("InvalidNftContract")
    ELSE IF Oracle(nftContract, tokenId) # sender THEN Err("NotTokenOwner")
    ELSE IF tokenWriteRevoked[nftContract][tokenId]
    THEN ErrKey("TokenWritesRevoked", nftContract, tokenId)
    ELSE IF ~IsCanonicalFilePath(path) THEN Err("InvalidPath")
    ELSE IF ~Covered(nftContract, tokenId, path) THEN Err("UnauthorizedPath")
    ELSE OK

\* C1: a write fails with the error of the first precondition that fails, in
\* the order EmptyCid, InvalidNftContract, NotTokenOwner, TokenWritesRevoked(key),
\* InvalidPath, UnauthorizedPath, and succeeds exactly when none fails.
C1_WriteErrorOrder ==
    \A sender \in Senders, nftContract \in NftContracts, tokenId \in TokenIds,
       path \in RawPaths, cid \in Cids :
        writeFileResult(sender, nftContract, tokenId, path, cid)
            = FirstFailure(sender, nftContract, tokenId, path, cid)

\* C1 witness: on a revoked key the holder's write of an invalid path fails with
\* TokenWritesRevoked (not InvalidPath), and another sender's valid write fails
\* with NotTokenOwner (not TokenWritesRevoked).
C1_Witness ==
    \E holder \in Holders, other \in Senders :
        /\ other # holder
        /\ _ownerOf[NFT][1] = holder
        /\ tokenWriteRevoked[NFT][1]
        /\ writeFileResult(holder, NFT, 1, PathDoubleSlash, "v1")
              = ErrKey("TokenWritesRevoked", NFT, 1)
        /\ writeFileResult(other, NFT, 1, PathAF, "v1") = Err("NotTokenOwner")

Reverse(seq) == [i \in 1..Len(seq) |-> seq[Len(seq) + 1 - i]]

\* C4: a canonical path is authorized for a key iff the matcher accepts it
\* for at least one member of the key's current prefix list, whatever the order
\* of the list; with an empty list every write that passes the earlier
\* preconditions fails with UnauthorizedPath.
C4_AuthorizedIffSomePrefix ==
    \A nftContract \in NftContracts, tokenId \in TokenIds :
        LET prefixes == _tokenPrefixes[nftContract][tokenId] IN
        \A path \in RawPaths :
            IsCanonicalFilePath(path) =>
                /\ _hasPathPermission(nftContract, tokenId, path)
                      = (\E q \in Range(prefixes) : _isPathInPrefix(path, q))
                /\ _hasPathPermissionLoop(Reverse(prefixes), path, 1)
                      = _hasPathPermission(nftContract, tokenId, path)
                /\ \A sender \in Senders, cid \in Cids :
                      ( /\ prefixes = <<>>
                        /\ cid # ""
                        /\ nftContract \in Deployed
                        /\ Oracle(nftContract, tokenId) = sender
                        /\ ~tokenWriteRevoked[nftContract][tokenId] )
                      => writeFileResult(sender, nftContract, tokenId, path, cid)
                            = Err("UnauthorizedPath")

\* C4 witness: the key's list is <<"/ab", "/a">> and the last call was a
\* successful write of "/a/f", which only the second prefix covers.
C4_Witness ==
    /\ _tokenPrefixes[NFT][1] = <<PrefixAb, PrefixA>>
    /\ events[Len(events)].name = "FileUpserted"
    /\ events[Len(events)].nftContract = NFT
    /\ events[Len(events)].path = PathAF

\* C5: a write succeeds only for the sender the oracle names as the holder of
\* the token; a sender who is merely the token's approved spender or the
\* holder's operator gets NotTokenOwner.
C5_OnlyHolderWrites ==
    \A sender \in Senders, nftContract \in NftContracts, tokenId \in TokenIds,
       path \in RawPaths, cid \in Cids :
        LET result == writeFileResult(sender, nftContract, tokenId, path, cid) IN
        /\ result = OK => Oracle(nftContract, tokenId) = sender
        /\ ( /\ cid # ""
             /\ nftContract \in Collections
             /\ _ownerOf[nftContract][tokenId] \notin {ZERO, sender}
             /\ \/ _tokenApprovals[nftContract][tokenId] = sender
                \/ _operatorApprovals[nftContract][_ownerOf[nftContract][tokenId]][sender] )
           => result = Err("NotTokenOwner")

\* C5 witness: the holder has just written "/a/f"; another account is both the
\* token's approved spender and the holder's operator, and its identical write
\* fails with NotTokenOwner.
C5_Witness ==
    \E holder \in Holders, spender \in Holders :
        /\ spender # holder
        /\ _ownerOf[NFT][1] = holder
        /\ _tokenApprovals[NFT][1] = spender
        /\ _operatorApprovals[NFT][holder][spender]
        /\ events[Len(events)].name = "FileUpserted"
        /\ events[Len(events)].writer = holder
        /\ writeFileResult(holder, NFT, 1, PathAF, "v1") = OK
        /\ writeFileResult(spender, NFT, 1, PathAF, "v1") = Err("NotTokenOwner")

\* C6 (as the specification states it): while the oracle cannot resolve a
\* holder for a key, every write for the key fails with NotTokenOwner and the
\* dry run answers false for every account, the zero address included, whatever
\* the key's prefix list.  Stated here for canonical paths and non-empty cids.
C6_UnresolvableDeniesAll ==
    \A nftContract \in Deployed, tokenId \in TokenIds :
        Oracle(nftContract, tokenId) = Unresolvable =>
            \A path \in RawPaths :
                IsCanonicalFilePath(path) =>
                    /\ \A sender \in Senders, cid \in Cids \ {""} :
                          writeFileResult(sender, nftContract, tokenId, path, cid)
                              = Err("NotTokenOwner")
                    /\ \A account \in Addresses :
                          canWritePath(nftContract, tokenId, account, path) = Ret(FALSE)

\* C7: when a token passes from A to B, from that state on A's write fails
\* with NotTokenOwner and B's identical write succeeds, with no call to
\* PinataFS in between.
C7_TransferTakesEffect ==
    [][ \A collection \in Collections, tokenId \in TokenIds, A \in Holders, B \in Holders :
          ( /\ A # B
            /\ _ownerOf[collection][tokenId] = A
            /\ _ownerOf'[collection][tokenId] = B )
          => /\ UNCHANGED fsVars
             /\ \A path \in RawPaths, cid \in Cids :
                   writeFileResult(A, collection, tokenId, path, cid) = OK
                   => /\ writeFileResult(A, collection, tokenId, path, cid)'
                            = Err("NotTokenOwner")
                      /\ writeFileResult(B, collection, tokenId, path, cid)' = OK
      ]_vars

\* C7 witness: the log's last write for (NFT, 1) is by one holder, the token is
\* now another's; the former holder's write fails, the new holder's succeeds.
C7_Witness ==
    \E A \in Holders, B \in Holders :
        /\ A # B
        /\ events[Len(events)].name = "FileUpserted"
        /\ events[Len(events)].nftContract = NFT
        /\ events[Len(events)].writer = A
        /\ _ownerOf[NFT][1] = B
        /\ writeFileResult(A, NFT, 1, PathAF, "v1") = Err("NotTokenOwner")
        /\ writeFileResult(B, NFT, 1, PathAF, "v1") = OK

\* A write that passes the first three preconditions: a non-empty cid, a
\* deployed contract, and the sender is the holder the oracle names.
PassesOwnership(sender, nftContract, tokenId, cid) ==
    /\ cid # ""
    /\ nftContract \in Deployed
    /\ Oracle(nftContract, tokenId) = sender

\* C8: while a key is revoked every write that passes preconditions 1-3 fails
\* with TokenWritesRevoked carrying the key; once the flag is cleared, with
\* nothing else changed, the identical otherwise-valid write succeeds.
C8_RevocationGate ==
    /\ [](\A sender \in Senders, nftContract \in NftContracts, tokenId \in TokenIds,
             path \in RawPaths, cid \in Cids :
              ( /\ tokenWriteRevoked[nftContract][tokenId]
                /\ PassesOwnership(sender, nftContract, tokenId, cid) )
              => writeFileResult(sender, nftContract, tokenId, path, cid)
                    = ErrKey("TokenWritesRevoked", nftContract, tokenId))
    /\ [][ \A nftContract \in NftContracts, tokenId \in TokenIds :
             ( /\ tokenWriteRevoked[nftContract][tokenId]
               /\ ~tokenWriteRevoked'[nftContract][tokenId] )
             => \A sender \in Senders, path \in RawPaths, cid \in Cids :
                   ( /\ PassesOwnership(sender, nftContract, tokenId, cid)
                     /\ IsCanonicalFilePath(path)
                     /\ Covered(nftContract, tokenId, path) )
                   => /\ writeFileResult(sender, nftContract, tokenId, path, cid)
                            = ErrKey("TokenWritesRevoked", nftContract, tokenId)
                      /\ writeFileResult(sender, nftContract, tokenId, path, cid)' = OK
         ]_vars

\* C8 witness: the last call cleared the flag of (NFT, 1) and the holder's
\* write of a covered path now succeeds.
C8_Witness ==
    /\ events[Len(events)].name = "TokenWriteRevocationUpdated"
    /\ events[Len(events)].nftContract = NFT
    /\ events[Len(events)].revoked = FALSE
    /\ \E holder \in Holders :
          writeFileResult(holder, NFT, 1, PathAF, "v1") = OK

\* C9: the revocation flag and the prefix list of a key do not touch each
\* other: a revocation update leaves every prefix list, a prefix replacement
\* leaves every flag, no write succeeds on a revoked key whatever its list, and
\* of all calls only setTokenWriteRevoked(key, false) clears a key's flag.
C9_FlagAndPrefixesIndependent ==
    \A sender \in Senders, nftContract \in NftContracts, tokenId \in TokenIds :
        /\ \A revoked \in BOOLEAN :
              setTokenWriteRevokedEffect(sender, nftContract, tokenId, revoked)._tokenPrefixes
                  = _tokenPrefixes
        /\ \A prefixes \in PrefixLists :
              replaceTokenPrefixesEffect(sender, nftContract, tokenId, prefixes).tokenWriteRevoked
                  = tokenWriteRevoked
        /\ \A path \in RawPaths, cid \in Cids :
              /\ writeFileEffect(sender, nftContract, tokenId, path, cid).tokenWriteRevoked
                    = tokenWriteRevoked
              /\ tokenWriteRevoked[nftContract][tokenId]
                    => writeFileResult(sender, nftContract, tokenId, path, cid) # OK
        /\ \A newOwner \in Addresses :
              transferOwnershipEffect(sender, newOwner).tokenWriteRevoked = tokenWriteRevoked
        /\ \A otherContract \in NftContracts, otherId \in TokenIds :
              ( /\ tokenWriteRevoked[otherContract][otherId]
                /\ <<otherContract, otherId>> # <<nftContract, tokenId>> )
              => \A revoked \in BOOLEAN :
                    setTokenWriteRevokedEffect(sender, nftContract, tokenId, revoked)
                        .tokenWriteRevoked[otherContract][otherId]
        /\ tokenWriteRevoked[nftContract][tokenId]
              => setTokenWriteRevokedEffect(sender, nftContract, tokenId, TRUE)
                    .tokenWriteRevoked[nftContract][tokenId]

\* C9 witness: (NFT, 1) was revoked, then granted a non-empty prefix list; it
\* is still revoked and its holder's covered write fails with TokenWritesRevoked.
C9_Witness ==
    /\ Len(events) >= 3
    /\ events[Len(events) - 1].name = "TokenWriteRevocationUpdated"
    /\ events[Len(events) - 1].nftContract = NFT
    /\ events[Len(events)].name = "TokenPrefixesReplaced"
    /\ events[Len(events)].nftContract = NFT
    /\ tokenWriteRevoked[NFT][1]
    /\ _tokenPrefixes[NFT][1] = <<PrefixA>>
    /\ \E holder \in Holders :
          /\ _ownerOf[NFT][1] = holder
          /\ writeFileResult(holder, NFT, 1, PathAF, "v1")
                = ErrKey("TokenWritesRevoked", NFT, 1)

\* C10: whenever the dry run answers true for an account, a write by that
\* account with a non-empty cid on the same state, key and path succeeds.
C10_DryRunImpliesWrite ==
    \A account \in Addresses, nftContract \in NftContracts, tokenId \in TokenIds,
       path \in RawPaths, cid \in Cids \ {""} :
        canWritePath(nftContract, tokenId, account, path) = Ret(TRUE)
            => writeFileResult(account, nftContract, tokenId, path, cid) = OK

\* C10 witness: the dry run answers true for the holder of (NFT, 1) on "/a/f",
\* and the last call was that holder's successful write of it.
C10_Witness ==
    \E holder \in Holders :
        /\ canWritePath(NFT, 1, holder, PathAF) = Ret(TRUE)
        /\ events[Len(events)].name = "FileUpserted"
        /\ events[Len(events)].writer = holder
        /\ events[Len(events)].path = PathAF

\* C11 (as the specification states it): the dry run answers with a boolean
\* for every input and never fails; the boolean is true exactly when the write
\* preconditions 2-6 hold with the account as the caller.  Stated here for the
\* accounts that can be callers.
C11_DryRunIsTotal ==
    \A account \in Senders, nftContract \in NftContracts, tokenId \in TokenIds,
       path \in RawPaths :
        canWritePath(nftContract, tokenId, account, path)
            = Ret(FirstFailure(account, nftContract, tokenId, path, "v1") = OK)

\* C12: a write is decided from the state it is applied in.  When the dry run
\* answered true for an account and the next step passes the token to someone
\* else, revokes the key or removes the covering prefix, the account's write on
\* the new state fails with NotTokenOwner, TokenWritesRevoked or
\* UnauthorizedPath respectively, and a failing write leaves the file records
\* as they are.
C12_DecidedAtApplyTime ==
    [][ \A nftContract \in Collections, tokenId \in TokenIds :
        ( \/ _ownerOf'[nftContract][tokenId] # _ownerOf[nftContract][tokenId]
          \/ tokenWriteRevoked'[nftContract][tokenId] # tokenWriteRevoked[nftContract][tokenId]
          \/ _tokenPrefixes'[nftContract][tokenId] # _tokenPrefixes[nftContract][tokenId] )
        => \A account \in {_ownerOf[nftContract][tokenId]}, path \in RawPaths,
              cid \in Cids \ {""} :
          canWritePath(nftContract, tokenId, account, path) = Ret(TRUE)
          => /\ _ownerOf'[nftContract][tokenId] # account
                   => writeFileResult(account, nftContract, tokenId, path, cid)'
                         = Err("NotTokenOwner")
             /\ ( /\ _ownerOf'[nftContract][tokenId] = account
                  /\ tokenWriteRevoked'[nftContract][tokenId] )
                   => writeFileResult(account, nftContract, tokenId, path, cid)'
                         = ErrKey("TokenWritesRevoked", nftContract, tokenId)
             /\ ( /\ _ownerOf'[nftContract][tokenId] = account
                  /\ ~tokenWriteRevoked'[nftContract][tokenId]
                  /\ ~Covered(nftContract, tokenId, path)' )
                   => writeFileResult(account, nftContract, tokenId, path, cid)'
                         = Err("UnauthorizedPath")
             /\ writeFileResult(account, nftContract, tokenId, path, cid)' # OK
                   => writeFileEffect(account, nftContract, tokenId, path, cid)'._files
                         = _files'
      ]_vars

\* C12 witness: the holder wrote "/a/f", then the key was revoked; the holder's
\* next write of "/a/f" fails with TokenWritesRevoked and the record still holds
\* the cid of the earlier write.
C12_Witness ==
    /\ Len(events) >= 3
    /\ events[Len(events) - 1].name = "FileUpserted"
    /\ events[Len(events) - 1].nftContract = NFT
    /\ events[Len(events) - 1].path = PathAF
    /\ events[Len(events) - 1].writer = _ownerOf[NFT][1]
    /\ events[Len(events)].name = "TokenWriteRevocationUpdated"
    /\ events[Len(events)].nftContract = NFT
    /\ events[Len(events)].revoked
    /\ writeFileResult(_ownerOf[NFT][1], NFT, 1, PathAF, "v2")
          = ErrKey("TokenWritesRevoked", NFT, 1)
    /\ _files[_hashString(PathAF)] = events[Len(events) - 1].cid

\* C13: the outcome of a write with key k is decided by k's own holder,
\* revocation flag and prefix list only.  A caller who holds two keys of which
\* only the other covers the path gets UnauthorizedPath, and a caller whose key
\* is revoked or does not cover the path never succeeds, whatever any other
\* key grants.
C13_NoFallbackBetweenKeys ==
    \A sender \in Senders, nftContract \in NftContracts, tokenId \in TokenIds,
       path \in RawPaths, cid \in Cids :
        LET result == writeFileResult(sender, nftContract, tokenId, path, cid) IN
        /\ result = FirstFailure(sender, nftContract, tokenId, path, cid)
        /\ ( \/ tokenWriteRevoked[nftContract][tokenId]
             \/ ~Covered(nftContract, tokenId, path) ) => result # OK
        /\ ( /\ PassesOwnership(sender, nftContract, tokenId, cid)
             /\ ~tokenWriteRevoked[nftContract][tokenId]
             /\ IsCanonicalFilePath(path)
             /\ ~Covered(nftContract, tokenId, path)
             /\ \E otherContract \in Collections \ {nftContract} :
                   /\ Oracle(otherContract, tokenId) = sender
                   /\ Covered(otherContract, tokenId, path) )
           => result = Err("UnauthorizedPath")

\* C13 witness: one holder has both keys; only EXT's list covers "/a/f".  The
\* last call was the holder's write of "/a/f" with the EXT key, and the same
\* write with the NFT key fails with UnauthorizedPath.
C13_Witness ==
    \E holder \in Holders :
        /\ _ownerOf[NFT][1] = holder
        /\ _ownerOf[EXT][1] = holder
        /\ _tokenPrefixes[NFT][1] = <<PrefixAb>>
        /\ _tokenPrefixes[EXT][1] = <<PrefixA>>
        /\ ~tokenWriteRevoked[NFT][1]
        /\ events[Len(events)].name = "FileUpserted"
        /\ events[Len(events)].nftContract = EXT
        /\ events[Len(events)].path = PathAF
        /\ writeFileResult(holder, NFT, 1, PathAF, "v1") = Err("UnauthorizedPath")

\* The positions in the audit log of the successful writes to a path.
Upserts(path) ==
    {i \in 1..Len(events) : events[i].name = "FileUpserted" /\ events[i].path = path}

Max(S) == CHOOSE x \in S : \A y \in S : y <= x

\* C14: last write wins.  For every canonical file path that has been written,
\* a read returns the cid of the most recent successful write to it, whoever
\* made it; a write that fails leaves every record as it is.
C14_LastWriteWins ==
    /\ \A path \in RawPaths :
          (IsCanonicalFilePath(path) /\ Upserts(path) # {})
              => getFile(path) = Ret(events[Max(Upserts(path))].cid)
    /\ \A sender \in Senders, nftContract \in NftContracts, tokenId \in TokenIds,
          path \in RawPaths, cid \in Cids :
          IsRevert(writeFileResult(sender, nftContract, tokenId, path, cid))
              => writeFileEffect(sender, nftContract, tokenId, path, cid)._files = _files

\* C14 witness: "/a/f" was written twice, by different holders and with
\* different cids, and a read returns the cid of the second write.
C14_Witness ==
    \E i \in Upserts(PathAF), j \in Upserts(PathAF) :
        /\ i < j
        /\ j = Len(events)
        /\ events[i].cid # events[j].cid
        /\ events[i].writer # events[j].writer
        /\ getFile(PathAF) = Ret(events[j].cid)

\* C15: for every canonical file path, with no authorization consulted: if no
\* successful write to it was ever applied, exists answers false and read fails
\* with FileNotFound; otherwise exists answers true and read returns a cid.
\* exists never fails with FileNotFound.
C15_ExistsAndRead ==
    \A path \in RawPaths :
        /\ fileExists(path) # Err("FileNotFound")
        /\ IsCanonicalFilePath(path) =>
              IF Upserts(path) = {}
              THEN fileExists(path) = Ret(FALSE) /\ getFile(path) = Err("FileNotFound")
              ELSE /\ fileExists(path) = Ret(TRUE)
                   /\ ~IsRevert(getFile(path))
                   /\ getFile(path)[2] \in Cids \ {""}

\* C15 witness: "/a/f" has just been written and "/ab/f" never: exists is true
\* for the one and false for the other, whose read fails with FileNotFound.
C15_Witness ==
    /\ events[Len(events)].name = "FileUpserted"
    /\ events[Len(events)].path = PathAF
    /\ fileExists(PathAF) = Ret(TRUE)
    /\ getFile(PathAF) = Ret(events[Len(events)].cid)
    /\ Upserts(PathAbF) = {}
    /\ fileExists(PathAbF) = Ret(FALSE)
    /\ getFile(PathAbF) = Err("FileNotFound")

\* C16: no delete.  A record that exists holds a non-empty cid, and over every
\* step (a write, a prefix replacement, a revocation update, an administrator
\* transfer, a token transfer) a path that exists still exists and still reads.
C16_NoDelete ==
    /\ [](\A path \in RawPaths :
             fileExists(path) = Ret(TRUE)
                 => (~IsRevert(getFile(path)) /\ getFile(path)[2] # ""))
    /\ [][ \/ _files' = _files
           \/ \A path \in RawPaths :
                 fileExists(path) = Ret(TRUE)
                     => /\ fileExists(path)' = Ret(TRUE)
                        /\ getFile(path)' # Err("FileNotFound")
         ]_vars

\* C16 witness: "/a/f" was written, then the key's prefix list was replaced by
\* the empty list; the record is still there.
C16_Witness ==
    /\ Len(events) >= 3
    /\ events[Len(events) - 1].name = "FileUpserted"
    /\ events[Len(events) - 1].path = PathAF
    /\ events[Len(events)].name = "TokenPrefixesReplaced"
    /\ _tokenPrefixes[NFT][1] = <<>>
    /\ fileExists(PathAF) = Ret(TRUE)
    /\ getFile(PathAF) = Ret(events[Len(events) - 1].cid)

\* A list without its later duplicates, in first-occurrence order.
RECURSIVE Dedup(_)
Dedup(L) ==
    IF L = <<>> THEN <<>>
    ELSE LET front == Dedup(SubSeq(L, 1, Len(L) - 1))
             last == L[Len(L)]
         IN  IF last \in Range(front) THEN front ELSE Append(front, last)

\* C17: replace-all.  A successful replaceTokenPrefixes(key, L) leaves the key
\* with exactly L without its later duplicates, in first-occurrence order and
\* with the bytes of each prefix as given, and leaves every other key alone.
\* Over a step that empties a key's list, the holder's otherwise valid writes
\* fail with UnauthorizedPath; over a step that installs a covering prefix they
\* succeed.
C17_ReplaceAll ==
    /\ [](\A sender \in Senders, nftContract \in NftContracts, tokenId \in TokenIds,
             L \in ReplaceInputs :
              replaceTokenPrefixesResult(sender, nftContract, tokenId, L) = OK
                  => replaceTokenPrefixesEffect(sender, nftContract, tokenId, L)._tokenPrefixes
                        = [_tokenPrefixes EXCEPT ![nftContract][tokenId] = Dedup(L)])
    /\ [][ \A nftContract \in Collections, tokenId \in TokenIds :
             _tokenPrefixes'[nftContract][tokenId] # _tokenPrefixes[nftContract][tokenId]
             => \A sender \in {_ownerOf[nftContract][tokenId]}, path \in RawPaths,
                   cid \in Cids :
                  ( /\ PassesOwnership(sender, nftContract, tokenId, cid)
                    /\ ~tokenWriteRevoked[nftContract][tokenId]
                    /\ IsCanonicalFilePath(path) )
                  => /\ _tokenPrefixes'[nftContract][tokenId] = <<>>
                           => writeFileResult(sender, nftContract, tokenId, path, cid)'
                                 = Err("UnauthorizedPath")
                     /\ Covered(nftContract, tokenId, path)'
                           => writeFileResult(sender, nftContract, tokenId, path, cid)' = OK
         ]_vars

\* C17 witness: the holder wrote "/a/f", then the key's list was replaced by
\* the empty list; the same write now fails with UnauthorizedPath.
C17_Witness ==
    /\ Len(events) >= 3
    /\ events[Len(events) - 1].name = "FileUpserted"
    /\ events[Len(events) - 1].nftContract = NFT
    /\ events[Len(events) - 1].path = PathAF
    /\ events[Len(events) - 1].writer = _ownerOf[NFT][1]
    /\ events[Len(events)].name = "TokenPrefixesReplaced"
    /\ events[Len(events)].nftContract = NFT
    /\ _tokenPrefixes[NFT][1] = <<>>
    /\ ~tokenWriteRevoked[NFT][1]
    /\ writeFileResult(_ownerOf[NFT][1], NFT, 1, PathAF, "v1") = Err("UnauthorizedPath")

\* A prefix list as the specification wants it stored: no entry twice, every
\* entry accepted by canonicalization in prefix mode, hence without ".", without
\* "//" and without a trailing "/" unless it is the root.
WellFormedPrefixes(L) ==
    /\ \A i \in 1..Len(L), j \in 1..Len(L) : i # j => L[i] # L[j]
    /\ \A q \in Range(L) :
          /\ ~IsRevert(_normalizePrefixPath(q))
          /\ \A i \in 1..Len(q) : q[i] # DOT
          /\ \A i \in 1..(Len(q) - 1) : ~(q[i] = SLASH /\ q[i + 1] = SLASH)
          /\ q[Len(q)] = SLASH => q = <<SLASH>>

\* C18: in every reachable state every stored prefix list has no duplicate
\* entry and only canonical prefixes, and so has the list any replacement
\* would leave.
C18_StoredPrefixesWellFormed ==
    \A nftContract \in NftContracts, tokenId \in TokenIds :
        /\ WellFormedPrefixes(_tokenPrefixes[nftContract][tokenId])
        /\ \A sender \in Senders, L \in ReplaceInputs :
              WellFormedPrefixes(
                  replaceTokenPrefixesEffect(sender, nftContract, tokenId, L)
                      ._tokenPrefixes[nftContract][tokenId])

\* C18 witness: the last call replaced the list of (NFT, 1), which now holds
\* two distinct canonical prefixes.
C18_Witness ==
    /\ events[Len(events)].name = "TokenPrefixesReplaced"
    /\ events[Len(events)].nftContract = NFT
    /\ _tokenPrefixes[NFT][1] = <<PrefixAb, PrefixA>>

\* C19: setTokenWriteRevoked is idempotent.  A successful call with the value
\* the flag already has (false on a key never touched included) changes nothing
\* and emits nothing; a successful call with the other value stores it and
\* emits one TokenWriteRevocationUpdated; over every step the log gains a
\* revocation event exactly when some flag changes.
C19_SetRevokedIdempotent ==
    /\ [](\A sender \in Senders, nftContract \in NftContracts, tokenId \in TokenIds,
             revoked \in BOOLEAN :
              setTokenWriteRevokedResult(sender, nftContract, tokenId, revoked) = OK
              => setTokenWriteRevokedEffect(sender, nftContract, tokenId, revoked)
                    = IF tokenWriteRevoked[nftContract][tokenId] = revoked
                      THEN FsState
                      ELSE [FsState EXCEPT
                              !.tokenWriteRevoked =
                                  [@ EXCEPT ![nftContract][tokenId] = revoked],
                              !.events =
                                  Append(@, TokenWriteRevocationUpdated(nftContract,
                                                                        tokenId, revoked))])
    /\ [][ (tokenWriteRevoked' # tokenWriteRevoked)
             <=> ( /\ Len(events') = Len(events) + 1
                   /\ events'[Len(events')].name = "TokenWriteRevocationUpdated" )
         ]_vars

\* C19 witness: the last call revoked (NFT, 1); the administrator's repeat of
\* the same call succeeds and leaves the state and the log as they are.
C19_Witness ==
    /\ owner \in Senders
    /\ tokenWriteRevoked[NFT][1]
    /\ events[Len(events)].name = "TokenWriteRevocationUpdated"
    /\ events[Len(events)].nftContract = NFT
    /\ events[Len(events)].revoked
    /\ setTokenWriteRevokedResult(owner, NFT, 1, TRUE) = OK
    /\ setTokenWriteRevokedEffect(owner, NFT, 1, TRUE) = FsState

\* C20: disabling the administrator is terminal.  Once owner is the zero
\* address it stays so, every replaceTokenPrefixes, setTokenWriteRevoked and
\* transferOwnership call by any sender fails with NotOwner, no prefix list and
\* no revocation flag changes any more, and writes are still decided by the
\* (frozen) permission state.
C20_AdminDisableIsTerminal ==
    /\ [](owner = ZERO =>
            \A sender \in Senders :
                /\ \A newOwner \in Addresses :
                      transferOwnershipResult(sender, newOwner) = Err("NotOwner")
                /\ \A nftContract \in NftContracts, tokenId \in TokenIds :
                      /\ \A L \in ReplaceInputs :
                            replaceTokenPrefixesResult(sender, nftContract, tokenId, L)
                                = Err("NotOwner")
                      /\ \A revoked \in BOOLEAN :
                            setTokenWriteRevokedResult(sender, nftContract, tokenId, revoked)
                                = Err("NotOwner")
                      /\ \A path \in RawPaths, cid \in Cids :
                            writeFileResult(sender, nftContract, tokenId, path, cid)
                                = FirstFailure(sender, nftContract, tokenId, path, cid))
    /\ [][ owner = ZERO =>
             /\ owner' = ZERO
             /\ _tokenPrefixes' = _tokenPrefixes
             /\ tokenWriteRevoked' = tokenWriteRevoked
         ]_vars

\* C20 witness: the administrator was set to the zero address, and after that
\* the holder of (NFT, 1) wrote a file.
C20_Witness ==
    /\ Len(events) >= 3
    /\ owner = ZERO
    /\ events[Len(events) - 1].name = "OwnershipTransferred"
    /\ events[Len(events) - 1].newOwner = ZERO
    /\ events[Len(events)].name = "FileUpserted"
    /\ events[Len(events)].writer = _ownerOf[NFT][1]

\* C21: only the current administrator changes permission state.  The deployer
\* is the first administrator; a replaceTokenPrefixes or setTokenWriteRevoked
\* call by any other sender fails with NotOwner and changes nothing; a prefix
\* list or a flag changes only in a step that logs the matching administrator
\* event; over a step that passes the administration from A to B, A's calls
\* fail from then on and B's succeed.
C21_OnlyAdministratorMutates ==
    /\ [](/\ events[1] = OwnershipTransferred(ZERO, DEPLOYER)
          /\ Len(events) = 1 => owner = DEPLOYER
          /\ \A sender \in Senders, nftContract \in NftContracts, tokenId \in TokenIds :
                /\ \A L \in ReplaceInputs :
                      LET result == replaceTokenPrefixesResult(sender, nftContract, tokenId, L)
                      IN  /\ sender # owner => result = Err("NotOwner")
                          /\ result = OK => sender = owner
                          /\ sender # owner =>
                                replaceTokenPrefixesEffect(sender, nftContract, tokenId, L)
                                    = FsState
                /\ \A revoked \in BOOLEAN :
                      LET result ==
                              setTokenWriteRevokedResult(sender, nftContract, tokenId, revoked)
                      IN  /\ sender # owner => result = Err("NotOwner")
                          /\ result = OK => sender = owner
                          /\ sender # owner =>
                                setTokenWriteRevokedEffect(sender, nftContract, tokenId, revoked)
                                    = FsState)
    /\ [][ /\ _tokenPrefixes' # _tokenPrefixes
                => /\ events' # events
                   /\ events'[Len(events')].name = "TokenPrefixesReplaced"
                   /\ owner' = owner /\ owner \in Senders
           /\ tokenWriteRevoked' # tokenWriteRevoked
                => /\ events' # events
                   /\ events'[Len(events')].name = "TokenWriteRevocationUpdated"
                   /\ owner' = owner /\ owner \in Senders
           /\ \A A \in Senders, B \in Senders :
                (A # B /\ owner = A /\ owner' = B)
                => /\ replaceTokenPrefixesResult(A, NFT, 1, <<PrefixA>>)' = Err("NotOwner")
                   /\ setTokenWriteRevokedResult(A, NFT, 1, TRUE)' = Err("NotOwner")
                   /\ transferOwnershipResult(A, A)' = Err("NotOwner")
                   /\ replaceTokenPrefixesResult(B, NFT, 1, <<PrefixA>>)' = OK
                   /\ setTokenWriteRevokedResult(B, NFT, 1, TRUE)' = OK
         ]_vars

\* C21 witness: the deployer handed the administration to BOB, who then
\* replaced a prefix list; the deployer's calls now fail with NotOwner.
C21_Witness ==
    /\ Len(events) >= 3
    /\ owner = BOB
    /\ events[Len(events) - 1] = OwnershipTransferred(DEPLOYER, BOB)
    /\ events[Len(events)].name = "TokenPrefixesReplaced"
    /\ _tokenPrefixes[NFT][1] # <<>>
    /\ replaceTokenPrefixesResult(DEPLOYER, NFT, 1, <<PrefixA>>) = Err("NotOwner")
    /\ setTokenWriteRevokedResult(DEPLOYER, NFT, 1, TRUE) = Err("NotOwner")
    /\ replaceTokenPrefixesResult(BOB, NFT, 1, <<PrefixA>>) = OK

\* C22: a key whose contract address has no code (the zero address, an
\* externally owned account) is rejected: the administrator's
\* replaceTokenPrefixes and setTokenWriteRevoked fail with InvalidNftContract,
\* and so does every write with a non-empty cid, whoever holds what.
C22_InvalidNftContractRejected ==
    \A nftContract \in NftContracts \ Deployed, tokenId \in TokenIds :
        /\ \A L \in ReplaceInputs :
              owner \in Senders =>
                  replaceTokenPrefixesResult(owner, nftContract, tokenId, L)
                      = Err("InvalidNftContract")
        /\ \A revoked \in BOOLEAN :
              owner \in Senders =>
                  setTokenWriteRevokedResult(owner, nftContract, tokenId, revoked)
                      = Err("InvalidNftContract")
        /\ \A sender \in Senders, path \in RawPaths, cid \in Cids \ {""} :
              writeFileResult(sender, nftContract, tokenId, path, cid)
                  = Err("InvalidNftContract")
        /\ _tokenPrefixes[nftContract][tokenId] = <<>>
        /\ ~tokenWriteRevoked[nftContract][tokenId]

\* C22 witness: ALICE holds token 1 of NFT and has just written with it; the
\* same write naming her own address, or the zero address, as the contract
\* fails with InvalidNftContract, and so do the administrator's calls.
C22_Witness ==
    /\ owner \in Senders
    /\ _ownerOf[NFT][1] = ALICE
    /\ events[Len(events)].name = "FileUpserted"
    /\ events[Len(events)].writer = ALICE
    /\ writeFileResult(ALICE, NFT, 1, PathAF, "v1") = OK
    /\ writeFileResult(ALICE, ALICE, 1, PathAF, "v1") = Err("InvalidNftContract")
    /\ writeFileResult(ALICE, ZERO, 1, PathAF, "v1") = Err("InvalidNftContract")
    /\ replaceTokenPrefixesResult(owner, ALICE, 1, <<PrefixA>>) = Err("InvalidNftContract")
    /\ setTokenWriteRevokedResult(owner, ZERO, 1, TRUE) = Err("InvalidNftContract")

\* The path grammar, stated position by position over the bytes of a string.
GrammarChar(b) ==
    b \in (UpperA..UpperZ) \cup (LowerA..LowerZ) \cup (Digit0..Digit9)
              \cup {HYPHEN, UNDERSCORE}

StructureOK(bytes) ==
    /\ Len(bytes) >= 1
    /\ bytes[1] = SLASH
    /\ Len(bytes) > 1 => bytes[Len(bytes)] # SLASH
    /\ \A i \in 1..(Len(bytes) - 1) : ~(bytes[i] = SLASH /\ bytes[i + 1] = SLASH)
    /\ \A i \in 1..Len(bytes) :
          bytes[i] = SLASH \/ bytes[i] = DOT \/ GrammarChar(bytes[i])

\* every "." sits in the final segment, alone, neither first nor last there
DotRules(bytes) ==
    \A i \in 1..Len(bytes) :
        bytes[i] = DOT =>
            /\ \A j \in (i + 1)..Len(bytes) : bytes[j] # SLASH /\ bytes[j] # DOT
            /\ i > 1 /\ bytes[i - 1] # SLASH
            /\ i < Len(bytes)

Grammar(bytes, fileMode) ==
    /\ StructureOK(bytes)
    /\ IF fileMode
       THEN Len(bytes) > 1 /\ DotRules(bytes)
       ELSE DOT \notin Range(bytes)

OnChainDone ==
    probe.fn \in {"normalizePrefixPath", "normalizeFilePath"} /\ probe.done

\* C23: the on-chain normalizer accepts exactly the strings of the grammar,
\* in both modes: a leading "/", no empty segment, no trailing "/", segment
\* characters A-Z a-z 0-9 - _ (and "." under the dot rules); the bare root
\* "/" is a prefix but not a file path; every rejection is InvalidPath.
C23_AcceptsExactlyTheGrammar ==
    OnChainDone =>
        LET bytes == Utf8(probe.path)
            fileMode == probe.fn = "normalizeFilePath"
        IN  /\ ~IsRevert(probe.out) <=> Grammar(bytes, fileMode)
            /\ IsRevert(probe.out) => probe.out = Err("InvalidPath")
            /\ bytes = <<SLASH>> => (IsRevert(probe.out) <=> fileMode)
            /\ Len(bytes) = 2 =>
                  (~IsRevert(probe.out) <=> (bytes[1] = SLASH /\ GrammarChar(bytes[2])))

\* C23 witness: the bare root was accepted as a prefix, and is refused as a
\* file path.
C23_Witness ==
    /\ probe.fn = "normalizePrefixPath"
    /\ probe.done
    /\ probe.path = <<SLASH>>
    /\ probe.out = Ret(<<SLASH>>)
    /\ normalizeFilePath(<<SLASH>>) = Err("InvalidPath")

\* C24: in a file path "." may appear only in the final segment, at most
\* once, and never as the first or last character of the segment; in a
\* prefix any "." is refused.
C24_DotRules ==
    OnChainDone =>
        LET bytes == Utf8(probe.path)
        IN  IF probe.fn = "normalizePrefixPath"
            THEN DOT \in Range(bytes) => probe.out = Err("InvalidPath")
            ELSE /\ ~DotRules(bytes) => probe.out = Err("InvalidPath")
                 /\ (StructureOK(bytes) /\ Len(bytes) > 1 /\ DotRules(bytes))
                        => probe.out = Ret(bytes)
                 /\ probe.path \in {DotDotSegment, DoubleDot, LeadingDot,
                                    TrailingDot, DotInDirectory}
                        => probe.out = Err("InvalidPath")
                 /\ probe.path = DotInFile => probe.out = Ret(DotInFile)

\* C24 witness: "/a.b/c" was refused as a file path, where "/a/b.json" is
\* accepted.
C24_Witness ==
    /\ probe.fn = "normalizeFilePath"
    /\ probe.done
    /\ probe.path = DotInDirectory
    /\ probe.out = Err("InvalidPath")
    /\ normalizeFilePath(DotInFile) = Ret(DotInFile)

\* C25: normalization is a validating identity: a successful result is
\* byte-for-byte the input, upper and lower case preserved, and normalizing
\* the result again returns it unchanged.
C25_ValidatingIdentity ==
    (OnChainDone /\ ~IsRevert(probe.out)) =>
        /\ probe.out = Ret(Utf8(probe.path))
        /\ IF probe.fn = "normalizePrefixPath"
           THEN normalizePrefixPath(probe.out[2]) = probe.out
           ELSE normalizeFilePath(probe.out[2]) = probe.out

\* C25 witness: a path with an upper-case and a lower-case letter came back
\* unchanged.
C25_Witness ==
    /\ probe.fn = "normalizeFilePath"
    /\ probe.done
    /\ probe.path = <<SLASH, UpperZ, LowerA, DOT, UpperZ>>
    /\ probe.out = Ret(<<SLASH, UpperZ, LowerA, DOT, UpperZ>>)

\* C26: the SDK's validatePrefixPath / validateFilePath accept a string
\* exactly when the contract's normalizer succeeds on its UTF-8 bytes.
C26_ClientAgreesWithContract ==
    probe.done =>
        /\ probe.fn = "validatePrefixPath" =>
              ((probe.out = OK) <=> ~IsRevert(normalizePrefixPath(Utf8(probe.path))))
        /\ probe.fn = "validateFilePath" =>
              ((probe.out = OK) <=> ~IsRevert(normalizeFilePath(Utf8(probe.path))))
        /\ probe.fn = "normalizePrefixPath" =>
              (~IsRevert(probe.out) <=> (validatePrefixPath(probe.path) = OK))
        /\ probe.fn = "normalizeFilePath" =>
              (~IsRevert(probe.out) <=> (validateFilePath(probe.path) = OK))
        /\ probe.fn \in {"validatePrefixPath", "validateFilePath"} =>
              probe.out \in {OK, Err("Error")}

\* C26 witness: the SDK refused a file path holding a character outside
\* ASCII, which the contract refuses as well, and accepts "/a.a" as the
\* contract does.
C26_Witness ==
    /\ probe.fn = "validateFilePath"
    /\ probe.done
    /\ probe.path = <<SLASH, LowerA, EAcute>>
    /\ probe.out = Err("Error")
    /\ normalizeFilePath(Utf8(probe.path)) = Err("InvalidPath")
    /\ validateFilePath(<<SLASH, LowerA, DOT, LowerA>>) = OK
    /\ normalizeFilePath(<<SLASH, LowerA, DOT, LowerA>>) = Ret(<<SLASH, LowerA, DOT, LowerA>>)

\* C27: the file audit log determines the file store.  A successful write
\* appends exactly one FileUpserted event carrying the key, the canonical
\* path, the cid and the writer; a failed write appends nothing; a read of a
\* canonical path returns the cid of the latest FileUpserted event for that
\* path, and fails with FileNotFound exactly when there is none.
C27_LogDeterminesFileStore ==
    /\ [](/\ \A path \in RawPaths :
                IsCanonicalFilePath(path) =>
                    /\ getFile(path) =
                          IF Upserts(path) = {} THEN Err("FileNotFound")
                          ELSE Ret(events[Max(Upserts(path))].cid)
                    /\ _files[_hashString(path)] =
                          IF Upserts(path) = {} THEN ""
                          ELSE events[Max(Upserts(path))].cid
          /\ \A sender \in Senders, nftContract \in NftContracts, tokenId \in TokenIds,
                path \in RawPaths, cid \in Cids :
                LET result == writeFileResult(sender, nftContract, tokenId, path, cid)
                    effect == writeFileEffect(sender, nftContract, tokenId, path, cid)
                IN  IF result = OK
                    THEN effect.events =
                            Append(events,
                                   FileUpserted(_hashString(_normalizeFilePath(path)[2]),
                                                nftContract, tokenId,
                                                _normalizeFilePath(path)[2], cid, sender))
                    ELSE effect.events = events)
    /\ [][ \/ _files' = _files /\ events' = events
           \/ /\ Len(events') = Len(events) + 1
              /\ SubSeq(events', 1, Len(events)) = events
              /\ IF events'[Len(events')].name = "FileUpserted"
                 THEN _files' = [_files EXCEPT ![events'[Len(events')].pathHash] =
                                                    events'[Len(events')].cid]
                 ELSE _files' = _files
         ]_vars

\* C27 witness: "/a/f" and then "/ab/f" were written; the log holds one
\* FileUpserted event for each and the reads return the logged cids.
C27_Witness ==
    /\ Len(events) >= 4
    /\ events[Len(events) - 1].name = "FileUpserted"
    /\ events[Len(events) - 1].path = PathAF
    /\ events[Len(events)].name = "FileUpserted"
    /\ events[Len(events)].path = PathAbF
    /\ events[Len(events)].pathHash = _hashString(PathAbF)
    /\ events[Len(events)].writer = _ownerOf[events[Len(events)].nftContract][1]
    /\ getFile(PathAF) = Ret(events[Len(events) - 1].cid)
    /\ getFile(PathAbF) = Ret(events[Len(events)].cid)
    /\ Cardinality(Upserts(PathAF)) = 1

AllKeys == NftContracts \X StoredTokenIds

FrameInputs == {<<>>, <<PrefixA>>, <<PrefixAb, PrefixA>>, <<PrefixDoubleSlash>>}

\* C28: administration is per key.  replaceTokenPrefixes and
\* setTokenWriteRevoked on key k leave the prefix list and the revocation flag
\* of every other key as they are, where two keys differ as soon as their
\* contracts or their token ids differ; and a token of any deployed contract
\* that answers ownerOf serves as a key, with no allowlist of contracts.
C28_KeysAreIndependent ==
    /\ [](/\ \A sender \in Senders \cap {owner}, k \in AllKeys :
                /\ \A L \in FrameInputs :
                      LET effect == replaceTokenPrefixesEffect(sender, k[1], k[2], L)
                      IN  /\ \A other \in AllKeys \ {k} :
                                effect._tokenPrefixes[other[1]][other[2]]
                                    = _tokenPrefixes[other[1]][other[2]]
                          /\ effect.tokenWriteRevoked = tokenWriteRevoked
                /\ \A revoked \in BOOLEAN :
                      LET effect == setTokenWriteRevokedEffect(sender, k[1], k[2], revoked)
                      IN  /\ \A other \in AllKeys \ {k} :
                                effect.tokenWriteRevoked[other[1]][other[2]]
                                    = tokenWriteRevoked[other[1]][other[2]]
                          /\ effect._tokenPrefixes = _tokenPrefixes
          /\ \A collection \in Collections, tokenId \in TokenIds, path \in {PathAF, PathAbF} :
                ( /\ _ownerOf[collection][tokenId] # ZERO
                  /\ ~tokenWriteRevoked[collection][tokenId]
                  /\ Covered(collection, tokenId, path) )
                => writeFileResult(_ownerOf[collection][tokenId], collection, tokenId,
                                   path, "v1") = OK)
    /\ [][ \/ _tokenPrefixes' = _tokenPrefixes /\ tokenWriteRevoked' = tokenWriteRevoked
           \/ \A k \in AllKeys :
             /\ _tokenPrefixes'[k[1]][k[2]] # _tokenPrefixes[k[1]][k[2]]
                  => /\ events'[Len(events')] = TokenPrefixesReplaced(k[1], k[2])
                     /\ _tokenPrefixes' = [_tokenPrefixes EXCEPT ![k[1]][k[2]] =
                                               _tokenPrefixes'[k[1]][k[2]]]
                     /\ tokenWriteRevoked' = tokenWriteRevoked
             /\ tokenWriteRevoked'[k[1]][k[2]] # tokenWriteRevoked[k[1]][k[2]]
                  => /\ events'[Len(events')]
                           = TokenWriteRevocationUpdated(k[1], k[2], tokenWriteRevoked'[k[1]][k[2]])
                     /\ tokenWriteRevoked' = [tokenWriteRevoked EXCEPT ![k[1]][k[2]] =
                                                  tokenWriteRevoked'[k[1]][k[2]]]
                     /\ _tokenPrefixes' = _tokenPrefixes
         ]_vars

\* C28 witness: token 1 of the second collection was minted, granted "/a" and
\* used to write, and then key (EXT, 2) was revoked: the grant and the flag of
\* (EXT, 1) and of both keys of the first collection are as before.
C28_Witness ==
    /\ Len(events) >= 4
    /\ events[Len(events) - 1].name = "FileUpserted"
    /\ events[Len(events) - 1].nftContract = EXT
    /\ events[Len(events)] = TokenWriteRevocationUpdated(EXT, 2, TRUE)
    /\ tokenWriteRevoked[EXT][2]
    /\ ~tokenWriteRevoked[EXT][1]
    /\ ~tokenWriteRevoked[NFT][2]
    /\ _tokenPrefixes[EXT][1] # <<>>
    /\ _tokenPrefixes[EXT][2] = <<>>
    /\ _tokenPrefixes[NFT][1] = <<>>
    /\ writeFileResult(_ownerOf[EXT][1], EXT, 1, PathAF, "v1") = OK

\* C29: a soulbound token keeps its owner for ever.  Every transferFrom and
\* safeTransferFrom of it fails, whoever calls (owner, approved address,
\* operator, anyone) and whatever the arguments, and leaves owners and balances
\* as they are; whether a token can move is fixed when it is minted.
C29_SoulboundNeverMoves ==
    /\ [](\A collection \in Collections, tokenId \in TokenIds :
            (_ownerOf[collection][tokenId] # ZERO /\ ~tokenTransferable[collection][tokenId])
            => \A sender \in Senders, from \in Addresses, to \in Addresses \cup {FS} :
                  /\ IsRevert(transferFromResult(sender, collection, from, to, tokenId))
                  /\ IsRevert(safeTransferFromResult(sender, collection, from, to, tokenId))
                  /\ to # ZERO =>
                        /\ transferFromResult(sender, collection, from, to, tokenId)
                              = <<"revert", "TokenSoulbound", tokenId>>
                        /\ safeTransferFromResult(sender, collection, from, to, tokenId)
                              = <<"revert", "TokenSoulbound", tokenId>>)
    /\ [][ \A collection \in Collections, tokenId \in TokenIds :
             _ownerOf[collection][tokenId] # ZERO
             => /\ tokenTransferable'[collection][tokenId]
                      = tokenTransferable[collection][tokenId]
                /\ ~tokenTransferable[collection][tokenId]
                      => /\ _ownerOf'[collection][tokenId] = _ownerOf[collection][tokenId]
                         /\ _balanceOf'[collection] = _balanceOf[collection]
         ]_vars

\* C29 witness: ALICE holds a soulbound token, BOB is both its approved
\* address and her operator, and neither of them can move it.
C29_Witness ==
    /\ _ownerOf[NFT][1] = ALICE
    /\ ~tokenTransferable[NFT][1]
    /\ _tokenApprovals[NFT][1] = BOB
    /\ _operatorApprovals[NFT][ALICE][BOB]
    /\ _balanceOf[NFT][ALICE] = 1
    /\ transferFromResult(BOB, NFT, ALICE, BOB, 1) = <<"revert", "TokenSoulbound", 1>>
    /\ transferFromResult(ALICE, NFT, ALICE, BOB, 1) = <<"revert", "TokenSoulbound", 1>>
    /\ safeTransferFromResult(ALICE, NFT, ALICE, BOB, 1) = <<"revert", "TokenSoulbound", 1>>

\* C30: every successful replaceTokenPrefixes appends exactly one
\* TokenPrefixesReplaced event, which carries the key and nothing else; it
\* does so also when the list is empty and when the stored list does not
\* change.  A failed call appends nothing.
C30_ReplaceAlwaysLogsTheKey ==
    /\ [](\A sender \in Senders, nftContract \in NftContracts, tokenId \in TokenIds,
             L \in ReplaceInputs :
              LET result == replaceTokenPrefixesResult(sender, nftContract, tokenId, L)
                  effect == replaceTokenPrefixesEffect(sender, nftContract, tokenId, L)
              IN  IF result = OK
                  THEN /\ effect.events =
                             Append(events, [name |-> "TokenPrefixesReplaced",
                                             nftContract |-> nftContract,
                                             tokenId |-> tokenId])
                       /\ DOMAIN effect.events[Len(effect.events)]
                             = {"name", "nftContract", "tokenId"}
                  ELSE effect.events = events)
    /\ [][ (events' # events /\ events'[Len(events')].name = "TokenPrefixesReplaced")
             => /\ Len(events') = Len(events) + 1
                /\ SubSeq(events', 1, Len(events)) = events
                /\ owner' = owner
                /\ tokenWriteRevoked' = tokenWriteRevoked
                /\ _files' = _files
         ]_vars

\* C30 witness: the administrator replaced the list of (NFT, 1) by the empty
\* list twice in a row; the list was empty both times and each call logged
\* its event.
C30_Witness ==
    /\ Len(events) >= 3
    /\ events[Len(events) - 1] = TokenPrefixesReplaced(NFT, 1)
    /\ events[Len(events)] = TokenPrefixesReplaced(NFT, 1)
    /\ _tokenPrefixes[NFT][1] = <<>>
    /\ \A i \in 1..Len(events) : events[i].name # "FileUpserted"
    /\ Len(events) = 3

\* positions in the log of the revocation events of one key
RevocationEvents(nftContract, tokenId) ==
    {i \in 1..Len(events) :
        /\ events[i].name = "TokenWriteRevocationUpdated"
        /\ events[i].nftContract = nftContract
        /\ events[i].tokenId = tokenId}

\* C31: the revocation log determines the flag.  In every reachable state the
\* flag of a key is the value carried by the latest
\* TokenWriteRevocationUpdated event of that key, and false when there is
\* none; the successive revocation events of one key alternate true, false,
\* true, ..., the first one carrying true.
C31_LogDeterminesRevocationFlag ==
    \A nftContract \in NftContracts, tokenId \in StoredTokenIds :
        LET idx == RevocationEvents(nftContract, tokenId)
        IN  /\ tokenWriteRevoked[nftContract][tokenId] =
                  IF idx = {} THEN FALSE ELSE events[Max(idx)].revoked
            /\ \A i \in idx :
                  events[i].revoked = (Cardinality({j \in idx : j <= i}) % 2 = 1)

\* C31 witness: key (NFT, 1) was revoked, restored and revoked again; the log
\* holds true, false, true for it and the flag is set.
C31_Witness ==
    /\ Len(events) = 4
    /\ events[2] = TokenWriteRevocationUpdated(NFT, 1, TRUE)
    /\ events[3] = TokenWriteRevocationUpdated(NFT, 1, FALSE)
    /\ events[4] = TokenWriteRevocationUpdated(NFT, 1, TRUE)
    /\ tokenWriteRevoked[NFT][1]

\* C32: the administrator operations check the caller, then the contract,
\* then the prefixes.  A caller who is not the administrator gets NotOwner
\* from replaceTokenPrefixes and setTokenWriteRevoked whatever the contract
\* and the prefixes; the administrator naming a contract without code gets
\* InvalidNftContract even when a prefix is invalid; InvalidPath is the
\* answer only once the caller and the contract have passed.
C32_AdminCheckOrder ==
    \A sender \in Senders, nftContract \in NftContracts, tokenId \in TokenIds :
        /\ \A L \in ReplaceInputs :
              LET result == replaceTokenPrefixesResult(sender, nftContract, tokenId, L)
                  invalid == \E i \in 1..Len(L) : IsRevert(_normalizePrefixPath(L[i]))
              IN  result =
                      IF sender # owner THEN Err("NotOwner")
                      ELSE IF nftContract \notin Deployed THEN Err("InvalidNftContract")
                      ELSE IF invalid THEN Err("InvalidPath")
                      ELSE OK
        /\ \A revoked \in BOOLEAN :
              setTokenWriteRevokedResult(sender, nftContract, tokenId, revoked) =
                  IF sender # owner THEN Err("NotOwner")
                  ELSE IF nftContract \notin Deployed THEN Err("InvalidNftContract")
                  ELSE OK

\* C32 witness: BOB administers after a handover.  The deployer naming the
\* zero address and an invalid prefix gets NotOwner; BOB naming an account
\* without code and an invalid prefix gets InvalidNftContract; BOB naming the
\* collection and the invalid prefix gets InvalidPath.
C32_Witness ==
    /\ owner = BOB
    /\ events[Len(events)] = OwnershipTransferred(DEPLOYER, BOB)
    /\ replaceTokenPrefixesResult(DEPLOYER, ZERO, 1, <<PrefixDoubleSlash>>) = Err("NotOwner")
    /\ setTokenWriteRevokedResult(DEPLOYER, ZERO, 1, TRUE) = Err("NotOwner")
    /\ replaceTokenPrefixesResult(BOB, ALICE, 1, <<PrefixDoubleSlash>>)
          = Err("InvalidNftContract")
    /\ replaceTokenPrefixesResult(BOB, NFT, 1, <<PrefixDoubleSlash>>) = Err("InvalidPath")

\* C33: canWritePath fails with InvalidPath exactly when the contract has
\* code, the key is not revoked, the account is the owner the contract
\* resolved, and the path does not canonicalize.  In every other case it
\* returns a boolean: false, without the path being looked at, when the
\* contract has no code, the key is revoked or the account is not the owner.
C33_DryRunFailsOnlyOnPath ==
    \A account \in Addresses, nftContract \in NftContracts, tokenId \in TokenIds,
       path \in RawPaths :
        LET answer == canWritePath(nftContract, tokenId, account, path)
            early == \/ nftContract \notin Deployed
                     \/ tokenWriteRevoked[nftContract][tokenId]
                     \/ account # _ownerOfNftTokenNoRevert(nftContract, tokenId)
        IN  /\ IsRevert(answer) <=> (~early /\ ~IsCanonicalFilePath(path))
            /\ IsRevert(answer) => answer = Err("InvalidPath")
            /\ ~IsRevert(answer) => answer \in {Ret(TRUE), Ret(FALSE)}
            /\ early => answer = Ret(FALSE)

\* C33 witness: ALICE holds the granted, unrevoked token 1.  The dry run of a
\* path with "//" fails with InvalidPath for her and answers false for BOB;
\* for a canonical path under her prefix it answers true.
C33_Witness ==
    /\ _ownerOf[NFT][1] = ALICE
    /\ ~tokenWriteRevoked[NFT][1]
    /\ _tokenPrefixes[NFT][1] # <<>>
    /\ canWritePath(NFT, 1, ALICE, PathDoubleSlash) = Err("InvalidPath")
    /\ canWritePath(NFT, 1, BOB, PathDoubleSlash) = Ret(FALSE)
    /\ canWritePath(ALICE, 1, ALICE, PathDoubleSlash) = Ret(FALSE)
    /\ canWritePath(NFT, 1, ALICE, PathAF) = Ret(TRUE)

\* C34: a token transfer changes nothing in the permission store.  Over a
\* step in which the owner of a token passes from A to B, the prefix list and
\* the revocation flag of its key (and all of PinataFS) stay as they are, so
\* every write ends for B after the step exactly as it ended for A before
\* it: the same paths succeed, and a revoked key is still revoked for B.
C34_TransferKeepsPermissions ==
    [][ \/ _ownerOf' = _ownerOf
        \/ \A collection \in Collections, tokenId \in TokenIds :
             \A A \in {_ownerOf[collection][tokenId]} \ {ZERO} :
                _ownerOf'[collection][tokenId] # A
                => /\ _tokenPrefixes' = _tokenPrefixes
                   /\ tokenWriteRevoked' = tokenWriteRevoked
                   /\ UNCHANGED fsVars
                   /\ \A B \in Holders, path \in RawPaths, cid \in Cids :
                         _ownerOf'[collection][tokenId] = B
                         => /\ writeFileResult(B, collection, tokenId, path, cid)'
                                  = writeFileResult(A, collection, tokenId, path, cid)
                            /\ (tokenWriteRevoked[collection][tokenId] /\ cid # "")
                                  => writeFileResult(B, collection, tokenId, path, cid)'
                                        = ErrKey("TokenWritesRevoked", collection, tokenId)
      ]_vars

\* C34 witness: one holder wrote with token 1, the key was then revoked, and
\* the token is now the other holder's: the key is still revoked for the new
\* owner and the prefix list is the one the first holder wrote under.
C34_Witness ==
    \E A \in Holders, B \in Holders :
        /\ A # B
        /\ Len(events) >= 4
        /\ events[Len(events) - 1].name = "FileUpserted"
        /\ events[Len(events) - 1].nftContract = NFT
        /\ events[Len(events) - 1].writer = A
        /\ events[Len(events)] = TokenWriteRevocationUpdated(NFT, 1, TRUE)
        /\ _ownerOf[NFT][1] = B
        /\ _tokenPrefixes[NFT][1] # <<>>
        /\ writeFileResult(B, NFT, 1, PathAF, "v1") = ErrKey("TokenWritesRevoked", NFT, 1)

\* C35: write authorization does not depend on the record already stored.
\* A holder whose unrevoked key covers a path can write it whether or not the
\* path has a record and whichever key or caller wrote that record, and the
\* write replaces the record; a step that stores a record leaves the outcome
\* of every write as it was.
C35_AuthorizationIgnoresRecords ==
    /\ [](\A collection \in Collections, tokenId \in TokenIds,
             path \in {PathAF, PathAbF}, cid \in Cids \ {""} :
              \A sender \in {_ownerOf[collection][tokenId]} \ {ZERO} :
                 ( /\ ~tokenWriteRevoked[collection][tokenId]
                   /\ Covered(collection, tokenId, path) )
                 => /\ writeFileResult(sender, collection, tokenId, path, cid) = OK
                    /\ writeFileEffect(sender, collection, tokenId, path, cid)
                           ._files[_hashString(path)] = cid)
    /\ [][ \/ _files' = _files
           \/ \A sender \in Senders, nftContract \in NftContracts, tokenId \in TokenIds,
                 path \in RawPaths, cid \in Cids :
                 writeFileResult(sender, nftContract, tokenId, path, cid)'
                     = writeFileResult(sender, nftContract, tokenId, path, cid)
         ]_vars

\* C35 witness: "/a/f" holds a record written through key (NFT, 1); key
\* (EXT, 1), granted afterwards and held by someone else, can overwrite it.
C35_Witness ==
    /\ Len(events) >= 4
    /\ events[Len(events) - 1].name = "FileUpserted"
    /\ events[Len(events) - 1].nftContract = NFT
    /\ events[Len(events) - 1].path = PathAF
    /\ events[Len(events)] = TokenPrefixesReplaced(EXT, 1)
    /\ getFile(PathAF) = Ret("v1")
    /\ _ownerOf[EXT][1] \in Holders \ {events[Len(events) - 1].writer}
    /\ writeFileResult(_ownerOf[EXT][1], EXT, 1, PathAF, "v2") = OK
    /\ writeFileEffect(_ownerOf[EXT][1], EXT, 1, PathAF, "v2")._files[_hashString(PathAF)]
          = "v2"

\* C36: tokenHasPrefix is exact membership, not coverage.  For a valid prefix
\* it answers whether that very prefix is in the stored list of the key:
\* with "/a" stored it answers false for "/a/b" although files under "/a/b"
\* can be written, and with "/" stored it answers false for every prefix
\* other than "/".  For an invalid prefix it fails with InvalidPath.
C36_TokenHasPrefixIsMembership ==
    \A nftContract \in NftContracts, tokenId \in TokenIds, prefix \in AskedPrefixes :
        LET stored == Range(_tokenPrefixes[nftContract][tokenId])
            answer == tokenHasPrefix(nftContract, tokenId, prefix)
        IN  /\ answer = IF IsRevert(_normalizePrefixPath(prefix)) THEN Err("InvalidPath")
                        ELSE Ret(prefix \in stored)
            /\ (stored = {PrefixRoot} /\ prefix # PrefixRoot) => answer # Ret(TRUE)
            /\ (stored = {PrefixA} /\ prefix = PrefixASlashB)
                  => /\ answer = Ret(FALSE)
                     /\ _hasPathPermission(nftContract, tokenId, PathABF)

\* C36 witness: key (NFT, 1) has just been granted exactly "/a" and its holder
\* can write "/a/b/f"; tokenHasPrefix answers true for "/a", false for "/a/b",
\* and fails for "/a//b".
C36_Witness ==
    /\ events[Len(events)] = TokenPrefixesReplaced(NFT, 1)
    /\ _tokenPrefixes[NFT][1] = <<PrefixA>>
    /\ _ownerOf[NFT][1] \in Holders
    /\ tokenHasPrefix(NFT, 1, PrefixA) = Ret(TRUE)
    /\ tokenHasPrefix(NFT, 1, PrefixASlashB) = Ret(FALSE)
    /\ writeFileResult(_ownerOf[NFT][1], NFT, 1, PathABF, "v1") = OK
    /\ tokenHasPrefix(NFT, 1, PrefixDoubleSlash) = Err("InvalidPath")

\* C36 witness for the root: with "/" stored, only "/" is held.
C36_WitnessRoot ==
    /\ _tokenPrefixes[NFT][1] = <<PrefixRoot>>
    /\ tokenHasPrefix(NFT, 1, PrefixRoot) = Ret(TRUE)
    /\ tokenHasPrefix(NFT, 1, PrefixA) = Ret(FALSE)

\* the token ids the successful calls of a history returned, in call order
RECURSIVE Collected(_, _)
Collected(logBlocks, calls) ==
    IF calls = <<>> THEN <<>>
    ELSE (IF Head(calls).ok
          THEN getLogs(logBlocks, Head(calls).fromBlock, Head(calls).toBlock)
          ELSE <<>>)
             \o Collected(logBlocks, Tail(calls))

\* The frames of the scan: only the running call is at "call"; a call that
\* split its range waits for the half that is directly above it, and its two
\* halves are non-empty, disjoint and cover its range.
ScanFramesOK ==
    \A i \in 1..Len(probe.stack) :
        LET frame == probe.stack[i] IN
        /\ frame.pc = "call" => i = Len(probe.stack)
        /\ frame.pc \in {"left", "right"} =>
              /\ frame.fromBlock <= frame.midpoint
              /\ frame.midpoint < frame.toBlock
              /\ (frame.fromBlock..frame.midpoint) \cup ((frame.midpoint + 1)..frame.toBlock)
                    = frame.fromBlock..frame.toBlock
              /\ i < Len(probe.stack) =>
                    LET child == probe.stack[i + 1] IN
                    IF frame.pc = "left"
                    THEN child.fromBlock = frame.fromBlock /\ child.toBlock = frame.midpoint
                    ELSE child.fromBlock = frame.midpoint + 1 /\ child.toBlock = frame.toBlock
              /\ i = Len(probe.stack) => probe.ret # NoReturn

\* What a finished scan did: no range was asked for twice; every failed call
\* on more than one block was followed by calls on its two halves; the result
\* is what the successful calls returned, so it is empty when all failed.
ScanDoneOK ==
    probe.done =>
        /\ probe.stack = <<>>
        /\ \A i \in 1..Len(probe.calls), j \in 1..Len(probe.calls) :
              (i # j) =>
                  <<probe.calls[i].fromBlock, probe.calls[i].toBlock>>
                      # <<probe.calls[j].fromBlock, probe.calls[j].toBlock>>
        /\ \A i \in 1..Len(probe.calls) :
              LET call == probe.calls[i] IN
              IF ~call.ok /\ call.fromBlock < call.toBlock
              THEN \E l \in (i + 1)..Len(probe.calls), r \in (i + 1)..Len(probe.calls) :
                      /\ l < r
                      /\ probe.calls[l].fromBlock = call.fromBlock
                      /\ probe.calls[r].toBlock = call.toBlock
                      /\ probe.calls[r].fromBlock = probe.calls[l].toBlock + 1
              ELSE \A k \in 1..Len(probe.calls) :
                      (k # i /\ ~call.ok) =>
                          ~( /\ probe.calls[k].fromBlock >= call.fromBlock
                             /\ probe.calls[k].toBlock <= call.toBlock )
        /\ probe.out = Collected(probe.logBlocks, probe.calls)
        /\ (\A i \in 1..Len(probe.calls) : ~probe.calls[i].ok) => probe.out = <<>>
        /\ probe.toBlock < probe.fromBlock => (probe.calls = <<>> /\ probe.out = <<>>)

\* C37: the bisect-and-retry scan terminates.  getReceivedTransferTokenIds
\* returns for every block range whatever getLogs does, with the empty list
\* when every getLogs call fails; a failing range of more than one block is
\* split into two disjoint halves that together cover it, and a failing
\* single block ends the recursion.
C37_ScanTerminates ==
    /\ [](probe.fn = "getReceivedTransferTokenIds" => (ScanFramesOK /\ ScanDoneOK))
    /\ <>(probe.fn = "getReceivedTransferTokenIds" /\ probe.done)

\* C37 witness: the scan of all blocks has returned the empty list after
\* every getLogs call failed, one call for each range of the bisection, although
\* the blocks hold logs.
C37_Witness ==
    /\ probe.fn = "getReceivedTransferTokenIds"
    /\ probe.done
    /\ probe.fromBlock = 0
    /\ probe.toBlock = MaxBlock
    /\ probe.logBlocks = Blocks
    /\ Len(probe.calls) = 2 * (MaxBlock + 1) - 1
    /\ \A i \in 1..Len(probe.calls) : ~probe.calls[i].ok
    /\ probe.out = <<>>


\* what the write panel displays of the permissions of a key
WritePanel ==
    <<probe.selectedTokenPrefixes, probe.selectedTokenWriteRevoked,
      probe.selectedTokenPermissionStatus, probe.selectedTokenPermissionError>>

\* what the administrator's editor displays of the permissions of a key
Editor ==
    <<probe.permissionLoadedPrefixes, probe.permissionPrefixesInput,
      probe.permissionLoadStatus, probe.permissionLoadError>>

\* the write panel is cleared or shows the permissions of the key selected
WritePanelOfSelection ==
    \/ /\ probe.selectedTokenPrefixes = <<>>
       /\ probe.selectedTokenWriteRevoked = null
    \/ /\ probe.writeToken # null
       /\ probe.selectedTokenPrefixes =
              getTokenPrefixes(probe.writeToken[1], probe.writeToken[2])
       /\ probe.selectedTokenWriteRevoked =
              Ret(isTokenWriteRevoked(probe.writeToken[1], probe.writeToken[2]))

\* the editor is cleared or shows the prefixes of the key selected
EditorOfSelection ==
    \/ /\ probe.permissionLoadedPrefixes = <<>>
       /\ probe.permissionPrefixesInput = <<>>
    \/ /\ probe.permissionToken # null
       /\ probe.permissionLoadedPrefixes =
              getTokenPrefixes(probe.permissionToken[1], probe.permissionToken[2])
       /\ probe.permissionPrefixesInput = join(probe.permissionLoadedPrefixes)

\* a load that resumes for a key no longer selected, or after its effect was
\* cleaned up, changes nothing that is displayed
StaleLoadChangesNothing ==
    \A load \in probe.pending \ probe'.pending :
        LET selected == IF load.effect = "loadPermissions"
                        THEN probe.writeToken ELSE probe.permissionToken
        IN  (load.cancelled \/ load.key # selected) =>
                (WritePanel' = WritePanel /\ Editor' = Editor)

\* every load that can still change the display is the one load of the key
\* now selected in its panel
LiveLoadsAreCurrent ==
    \A load \in probe.pending :
        ~load.cancelled =>
            load.key = (IF load.effect = "loadPermissions"
                        THEN probe.writeToken ELSE probe.permissionToken)

\* C38: in the demo UI a permissions response of a previously selected key
\* never updates the displayed prefixes, revocation status, status text or
\* error once the selection has changed: in whatever order the responses
\* arrive, what each panel displays is cleared or is the permissions of the
\* key now selected.
C38_DisplayFollowsSelection ==
    /\ [](probe.fn = "App" => (WritePanelOfSelection /\ EditorOfSelection))
    /\ [][probe.fn = "App" => StaleLoadChangesNothing]_vars

\* The part of C38 that the code keeps: stale loads are ignored in both
\* effects, and the write panel is cleared or current.
C38_StaleLoadsIgnored ==
    /\ [](probe.fn = "App" => (WritePanelOfSelection /\ LiveLoadsAreCurrent))
    /\ [][probe.fn = "App" => StaleLoadChangesNothing]_vars

\* The state in which C38 fails: the editor still lists the prefixes loaded
\* for key 1 while key 2 is selected and its load is pending.
C38_EditorShowsPreviousKey ==
    /\ probe.fn = "App"
    /\ probe.permissionToken = <<NFT, 2>>
    /\ probe.permissionLoadedPrefixes = getTokenPrefixes(NFT, 1)
    /\ probe.permissionLoadedPrefixes # getTokenPrefixes(NFT, 2)
    /\ Load("loadCurrentPermissionPrefixes", <<NFT, 2>>) \in probe.pending

====
